---- MODULE Spec2Model ----
(***************************************************************************)
(* Server-side room / round state machine of the name-that-tune prototype: *)
(* the room registry (server/rooms.ts), the round engine and the pending-  *)
(* answer table (server/game.ts) and the socket event handlers             *)
(* (server/socket.ts).  One action per socket event handler or timer       *)
(* callback; every exported function is an operator on the record of the   *)
(* module-level maps.                                                      *)
(***************************************************************************)
EXTENDS Integers, Sequences, FiniteSets, TLC

\* ---------------------------------------------------------------- bounds
NumSockets == 3
NumSessions == 2
NumCodes == 2
NumSongs == 2
MaxRound == 3
NumRoamers == 1

\* ------------------------------------------------------ program constants
FirstCode == 1000
PlayerCap == 20
MaxHandicap == 30
DELETION_GRACE_S == 300
DEFAULT_SETTINGS ==
  [totalRounds |-> 0,
   durationSteps |-> <<1, 2, 4, 8, 16>>,
   scoringScheme |-> <<4, 2, 1>>,
   playlistId |-> "",
   playlistName |-> ""]

\* ------------------------------------------------------------ input sets
Sockets == 1..NumSockets
Sessions == 1..NumSessions
Codes == FirstCode..(FirstCode + NumCodes - 1)
Songs == 1..NumSongs

\* The session id a connection presents in its handshake.  Connections 1 and
\* 1 + NumSessions present the same session (a reconnect or a second tab).
SessionOf(s) == ((s - 1) % NumSessions) + 1

\* -------------------------------------------------------------- JS Map
Has(m, k) == k \in DOMAIN m
MapSet(m, k, v) == [x \in (DOMAIN m) \cup {k} |-> IF x = k THEN v ELSE m[x]]
MapDel(m, k) == [x \in (DOMAIN m) \ {k} |-> m[x]]
EmptyMap == <<>>

Min(S) == CHOOSE x \in S : \A y \in S : x <= y

\* room.round === null
NullRound == [null |-> TRUE]

\* Array.prototype.find on room.players: index of the first player with the
\* given id, 0 when there is none
FindPlayer(players, id) ==
  LET I == {i \in 1..Len(players) : players[i].id = id}
  IN  IF I = {} THEN 0 ELSE Min(I)

SomePlayer(players, id) == FindPlayer(players, id) # 0

\* --------------------------------------------------------------- state
VARIABLES
  rooms,              \* code -> RoomState
  socketToRoom,       \* socket id -> code
  socketToSession,    \* socket id -> session id
  roomNicknames,      \* code -> (session id -> nickname)
  nextPlayerNumber,   \* code -> next auto-assigned player number
  gameParticipants,   \* code -> set of session ids
  roomHostSession,    \* code -> session id of the host
  playerState,        \* code -> (session id -> [score, handicapSeconds])
  scheduledDeletions, \* codes with a deletion timer stored under them
  deletionTimeouts,   \* code -> number of armed timeouts of scheduleDeletion
  pendingAnswers,     \* code -> (socket id -> pending answer with running timer)
  roomSongs,          \* code -> song list of the running game
  lobbySongs,         \* code -> song list selected in the lobby
  onDeletionExpired,  \* the registered deletion callback, or "null"
  conn,               \* socket id -> "new" | "open" | "closed"
  fired,              \* the timer whose callback ran last, if a timer did
  out                 \* the events the handler that ran last emitted

vars == <<rooms, socketToRoom, socketToSession, roomNicknames, nextPlayerNumber,
          gameParticipants, roomHostSession, playerState, scheduledDeletions,
          deletionTimeouts, pendingAnswers, roomSongs, lobbySongs,
          onDeletionExpired, conn, fired, out>>

\* the module-level maps as one record, threaded through the functions
State ==
  [rooms |-> rooms, socketToRoom |-> socketToRoom,
   socketToSession |-> socketToSession, roomNicknames |-> roomNicknames,
   nextPlayerNumber |-> nextPlayerNumber, gameParticipants |-> gameParticipants,
   roomHostSession |-> roomHostSession, playerState |-> playerState,
   scheduledDeletions |-> scheduledDeletions,
   deletionTimeouts |-> deletionTimeouts, pendingAnswers |-> pendingAnswers,
   roomSongs |-> roomSongs, lobbySongs |-> lobbySongs,
   onDeletionExpired |-> onDeletionExpired]

Commit(st) ==
  /\ rooms' = st.rooms
  /\ socketToRoom' = st.socketToRoom
  /\ socketToSession' = st.socketToSession
  /\ roomNicknames' = st.roomNicknames
  /\ nextPlayerNumber' = st.nextPlayerNumber
  /\ gameParticipants' = st.gameParticipants
  /\ roomHostSession' = st.roomHostSession
  /\ playerState' = st.playerState
  /\ scheduledDeletions' = st.scheduledDeletions
  /\ deletionTimeouts' = st.deletionTimeouts
  /\ pendingAnswers' = st.pendingAnswers
  /\ roomSongs' = st.roomSongs
  /\ lobbySongs' = st.lobbySongs
  /\ onDeletionExpired' = st.onDeletionExpired

\* ------------------------------------------------------- server/rooms.ts
\* Timers run in the order they fall due.  A deletion timer runs
\* DELETION_GRACE_S after it is armed and an answer timer at most MaxHandicap
\* seconds after it is armed, so an answer timer armed before a deletion
\* timer runs before it: each pending answer carries, in "older", the codes
\* of the deletion timers armed after it.
MarkOlder(pending, code, older) ==
  [rc \in DOMAIN pending |->
     [s \in DOMAIN pending[rc] |->
        [pending[rc][s] EXCEPT !.older = IF older THEN @ \cup {code}
                                        ELSE @ \ {code}]]]

\* the variant of cancelScheduledDeletion that leaves the timer running
cancelScheduledDeletion_Keep(st, code) == st

\* clearTimeout(timerId) for the timer stored under the code, if there is one
cancelScheduledDeletion(st, code) ==
  IF code \notin st.scheduledDeletions THEN st
  ELSE [st EXCEPT !.deletionTimeouts[code] = @ - 1,
                  !.scheduledDeletions = @ \ {code},
                  !.pendingAnswers = MarkOlder(@, code, FALSE)]

\* the variant of scheduleDeletion that arms its timer without clearing the
\* one already stored under the code
scheduleDeletion_Stack(st, code) ==
  [st EXCEPT !.deletionTimeouts[code] = @ + 1,
             !.scheduledDeletions = @ \cup {code},
             !.pendingAnswers = MarkOlder(@, code, TRUE)]

\* the variant of scheduleDeletion that arms no timer
scheduleDeletion_Never(st, code) == cancelScheduledDeletion(st, code)

\* cancelScheduledDeletion, then setTimeout and scheduledDeletions.set
scheduleDeletion(st, code) ==
  LET s1 == cancelScheduledDeletion(st, code)
  IN  [s1 EXCEPT !.deletionTimeouts[code] = @ + 1,
                 !.scheduledDeletions = @ \cup {code},
                 !.pendingAnswers = MarkOlder(@, code, TRUE)]

\* a deletion timer of code is armed and can be the next timer to run: no
\* answer timer armed before it is still pending.  An answer timer armed after it, also
\* one without delay (setTimeout(fn, 0) runs a millisecond later at the
\* earliest), may fall due before or after it.
DeletionDue(st, code) ==
  /\ st.deletionTimeouts[code] > 0
  /\ \A rc \in DOMAIN st.pendingAnswers : \A s \in DOMAIN st.pendingAnswers[rc] :
        code \notin st.pendingAnswers[rc][s].older

setDeletionCallback(st, cb) == [st EXCEPT !.onDeletionExpired = cb]

\* the variant of generateCode that does not consult the room table
generateCode_NoCheck(st) == Codes

\* the values generateCode can return: the codes not in the room table
generateCode(st) == {c \in Codes : ~Has(st.rooms, c)}

getSavedNickname(st, code, sessionId) ==
  IF Has(st.roomNicknames, code) /\ Has(st.roomNicknames[code], sessionId)
  THEN st.roomNicknames[code][sessionId]
  ELSE ""

saveNickname(st, code, sessionId, nickname) ==
  IF nickname = "" THEN st
  ELSE LET m == IF Has(st.roomNicknames, code) THEN st.roomNicknames[code]
                ELSE EmptyMap
       IN  [st EXCEPT !.roomNicknames = MapSet(@, code, MapSet(m, sessionId, nickname))]

assignNickname(st, code, sessionId) ==
  LET saved == getSavedNickname(st, code, sessionId)
  IN  IF saved # "" THEN [st |-> st, nickname |-> saved]
      ELSE LET num == IF Has(st.nextPlayerNumber, code)
                      THEN st.nextPlayerNumber[code] ELSE 1
           IN  [st |-> [st EXCEPT !.nextPlayerNumber = MapSet(@, code, num + 1)],
                nickname |-> "Player " \o ToString(num)]

createRoom(st, hostSocketId, sessionId, code) ==
  LET s1 == [st EXCEPT !.nextPlayerNumber = MapSet(@, code, 1)]
      a == assignNickname(s1, code, sessionId)
      room == [code |-> code,
               phase |-> "lobby",
               players |-> <<[id |-> hostSocketId, nickname |-> a.nickname,
                              score |-> 0, isHost |-> TRUE,
                              handicapSeconds |-> 0]>>,
               settings |-> DEFAULT_SETTINGS,
               round |-> NullRound]
  IN  [st |-> [a.st EXCEPT !.rooms = MapSet(@, code, room),
                           !.socketToRoom = MapSet(@, hostSocketId, code),
                           !.socketToSession = MapSet(@, hostSocketId, sessionId),
                           !.roomHostSession = MapSet(@, code, sessionId)],
       ret |-> code]

\* the variant of isReturningHost that recognises no session
isReturningHost_Never(st, code, sessionId) == FALSE

\* the variant of isReturningHost that takes every joiner for the host
isReturningHost_Always(st, code, sessionId) == TRUE

\* roomHostSession.get(code) === sessionId
isReturningHost(st, code, sessionId) ==
  Has(st.roomHostSession, code) /\ st.roomHostSession[code] = sessionId

\* the variant of mayJoin that admits every session in every phase
mayJoin_AnyPhase(st, code, sessionId) == TRUE

\* the phase check of joinRoom: a room out of the lobby admits only the
\* sessions recorded as participants of its game
mayJoin(st, code, sessionId) ==
  \/ st.rooms[code].phase = "lobby"
  \/ Has(st.gameParticipants, code) /\ sessionId \in st.gameParticipants[code]

joinRoom(st, code, socketId, sessionId) ==
  IF ~Has(st.rooms, code) THEN [st |-> st, ret |-> "Room not found"]
  ELSE
    LET s1 == cancelScheduledDeletion(st, code)
        room == s1.rooms[code]
    IN
    IF SomePlayer(room.players, socketId)
      THEN [st |-> s1, ret |-> "Already in room"]
    ELSE IF ~mayJoin(s1, code, sessionId)
      THEN [st |-> s1, ret |-> "Game already in progress"]
    ELSE IF Len(room.players) >= PlayerCap
      THEN [st |-> s1, ret |-> "Room is full"]
    ELSE
      LET returningHost == isReturningHost(s1, code, sessionId)
          hasSaved == Has(s1.playerState, code)
                      /\ Has(s1.playerState[code], sessionId)
          a == assignNickname(s1, code, sessionId)
          player == [id |-> socketId,
                     nickname |-> a.nickname,
                     score |-> IF hasSaved
                               THEN s1.playerState[code][sessionId].score ELSE 0,
                     isHost |-> returningHost,
                     handicapSeconds |->
                       IF hasSaved
                       THEN s1.playerState[code][sessionId].handicapSeconds
                       ELSE 0]
          phase2 == IF returningHost /\ room.phase = "paused"
                    THEN "playing" ELSE room.phase
          room2 == [room EXCEPT !.players = Append(@, player), !.phase = phase2]
      IN  [st |-> [a.st EXCEPT !.rooms = MapSet(@, code, room2),
                               !.socketToRoom = MapSet(@, socketId, code),
                               !.socketToSession = MapSet(@, socketId, sessionId)],
           ret |-> "ok"]

setNickname(st, code, socketId, nickname) ==
  IF ~Has(st.rooms, code) THEN [st |-> st, ret |-> "Room not found"]
  ELSE
    LET room == st.rooms[code]
        i == FindPlayer(room.players, socketId)
    IN
    IF i = 0 THEN [st |-> st, ret |-> "Not in room"]
    ELSE IF \E j \in 1..Len(room.players) :
              room.players[j].id # socketId /\ room.players[j].nickname = nickname
      THEN [st |-> st, ret |-> "Nickname already taken"]
    ELSE
      LET s1 == [st EXCEPT !.rooms[code].players[i].nickname = nickname]
      IN  [st |-> IF Has(s1.socketToSession, socketId)
                  THEN saveNickname(s1, code, s1.socketToSession[socketId], nickname)
                  ELSE s1,
           ret |-> "ok"]

deleteRoom(st, code) ==
  LET s1 == cancelScheduledDeletion(st, code)
  IN  [s1 EXCEPT !.rooms = MapDel(@, code),
                 !.roomNicknames = MapDel(@, code),
                 !.nextPlayerNumber = MapDel(@, code),
                 !.gameParticipants = MapDel(@, code),
                 !.roomHostSession = MapDel(@, code),
                 !.playerState = MapDel(@, code)]

NullLeave == [null |-> TRUE, code |-> 0, wasHost |-> FALSE, paused |-> FALSE]

\* the variant of afterRemoval that looks at the host before the player count
afterRemoval_HostFirst(st, code, wasHost) ==
  LET room == st.rooms[code]
  IN
  IF wasHost /\ room.phase = "playing"
    THEN [st |-> [st EXCEPT !.rooms[code].phase = "paused"],
          ret |-> [null |-> FALSE, code |-> code,
                   wasHost |-> TRUE, paused |-> TRUE]]
  ELSE IF Len(room.players) = 0
    THEN [st |-> scheduleDeletion(st, code), ret |-> NullLeave]
  ELSE IF wasHost
    THEN [st |-> scheduleDeletion(st, code),
          ret |-> [null |-> FALSE, code |-> code,
                   wasHost |-> TRUE, paused |-> FALSE]]
  ELSE [st |-> st,
        ret |-> [null |-> FALSE, code |-> code,
                 wasHost |-> FALSE, paused |-> FALSE]]

\* the end of leaveRoom, once the player is removed: st is the state with
\* the player removed, phase the room's phase
afterRemoval(st, code, wasHost) ==
  LET room == st.rooms[code]
  IN
  IF Len(room.players) = 0
    THEN [st |-> scheduleDeletion(st, code), ret |-> NullLeave]
  ELSE IF wasHost
    THEN IF room.phase = "playing"
         THEN [st |-> [st EXCEPT !.rooms[code].phase = "paused"],
               ret |-> [null |-> FALSE, code |-> code,
                        wasHost |-> TRUE, paused |-> TRUE]]
         ELSE [st |-> scheduleDeletion(st, code),
               ret |-> [null |-> FALSE, code |-> code,
                        wasHost |-> TRUE, paused |-> FALSE]]
  ELSE [st |-> st,
        ret |-> [null |-> FALSE, code |-> code,
                 wasHost |-> FALSE, paused |-> FALSE]]

leaveRoom(st, socketId) ==
  IF ~Has(st.socketToRoom, socketId) THEN [st |-> st, ret |-> NullLeave]
  ELSE
  LET code == st.socketToRoom[socketId] IN
  IF ~Has(st.rooms, code) THEN [st |-> st, ret |-> NullLeave]
  ELSE
    LET room == st.rooms[code]
        i == FindPlayer(room.players, socketId)
        hasSession == Has(st.socketToSession, socketId)
        s1 == IF i # 0 /\ hasSession
              THEN LET sessionId == st.socketToSession[socketId]
                       player == room.players[i]
                       sa == saveNickname(st, code, sessionId, player.nickname)
                       ps == IF Has(sa.playerState, code)
                             THEN sa.playerState[code] ELSE EmptyMap
                   IN  IF room.phase # "lobby"
                       THEN [sa EXCEPT !.playerState =
                               MapSet(@, code,
                                 MapSet(ps, sessionId,
                                   [score |-> player.score,
                                    handicapSeconds |-> player.handicapSeconds]))]
                       ELSE sa
              ELSE st
        wasHost == IF i # 0 THEN room.players[i].isHost ELSE FALSE
        rest == SelectSeq(room.players, LAMBDA p : p.id # socketId)
        s2 == [s1 EXCEPT !.socketToRoom = MapDel(@, socketId),
                         !.socketToSession = MapDel(@, socketId),
                         !.rooms[code].players = rest]
    IN
    afterRemoval(s2, code, wasHost)

saveGameParticipants(st, code) ==
  IF ~Has(st.rooms, code) THEN st
  ELSE
    LET ps == st.rooms[code].players
        participants ==
          {st.socketToSession[ps[i].id] :
             i \in {j \in 1..Len(ps) : Has(st.socketToSession, ps[j].id)}}
    IN  [st EXCEPT !.gameParticipants = MapSet(@, code, participants)]

isGameParticipant(st, code, sessionId) ==
  Has(st.gameParticipants, code) /\ sessionId \in st.gameParticipants[code]

\* getRoomBySocket: the code of the room, 0 for undefined
getRoomBySocket(st, socketId) ==
  IF Has(st.socketToRoom, socketId) /\ Has(st.rooms, st.socketToRoom[socketId])
  THEN st.socketToRoom[socketId]
  ELSE 0

\* Object.assign(room.settings, settings)
updateSettings(st, code, settings) ==
  IF ~Has(st.rooms, code) THEN st
  ELSE [st EXCEPT !.rooms[code].settings =
          [k \in DOMAIN @ |-> IF k \in DOMAIN settings THEN settings[k] ELSE @[k]]]

isHost(socketId, room) ==
  \E i \in 1..Len(room.players) :
    room.players[i].id = socketId /\ room.players[i].isHost

\* the variant of handicapInRange without the upper limit
handicapInRange_NoUpper(seconds) == seconds >= 0

\* seconds < 0 || seconds > 30 is false
handicapInRange(seconds) == seconds >= 0 /\ seconds <= MaxHandicap

setHandicap(st, code, socketId, seconds) ==
  IF ~Has(st.rooms, code) THEN [st |-> st, ret |-> "Room not found"]
  ELSE
    LET room == st.rooms[code]
        i == FindPlayer(room.players, socketId)
    IN
    IF room.phase # "lobby"
      THEN [st |-> st, ret |-> "Can only change handicap in lobby"]
    ELSE IF i = 0 THEN [st |-> st, ret |-> "Not in room"]
    ELSE IF ~handicapInRange(seconds)
      THEN [st |-> st, ret |-> "Handicap must be between 0 and 30 seconds"]
    ELSE [st |-> [st EXCEPT !.rooms[code].players[i].handicapSeconds = seconds],
          ret |-> "ok"]

\* -------------------------------------------------------- server/game.ts
cancelPendingAnswer(st, roomCode, socketId) ==
  IF ~Has(st.pendingAnswers, roomCode) THEN st
  ELSE IF ~Has(st.pendingAnswers[roomCode], socketId) THEN st
  ELSE LET roomPending == MapDel(st.pendingAnswers[roomCode], socketId)
       IN  IF DOMAIN roomPending = {}
           THEN [st EXCEPT !.pendingAnswers = MapDel(@, roomCode)]
           ELSE [st EXCEPT !.pendingAnswers = MapSet(@, roomCode, roomPending)]

addPendingAnswer(st, roomCode, socketId, pending) ==
  LET s1 == cancelPendingAnswer(st, roomCode, socketId)
      roomPending == IF Has(s1.pendingAnswers, roomCode)
                     THEN s1.pendingAnswers[roomCode] ELSE EmptyMap
  IN  [s1 EXCEPT !.pendingAnswers =
         MapSet(@, roomCode, MapSet(roomPending, socketId, pending))]

cancelAllPendingAnswers(st, roomCode) ==
  IF ~Has(st.pendingAnswers, roomCode) THEN st
  ELSE [st EXCEPT !.pendingAnswers = MapDel(@, roomCode)]

setLobbySongs(st, roomCode, songs) ==
  [st EXCEPT !.lobbySongs = MapSet(@, roomCode, songs)]

\* the orders [...songs].sort(() => Math.random() - 0.5) can produce
Shuffles(songs) ==
  {q \in [1..Len(songs) -> Songs] :
     \E f \in [1..Len(songs) -> 1..Len(songs)] :
        /\ \A i, j \in 1..Len(songs) : i # j => f[i] # f[j]
        /\ \A i \in 1..Len(songs) : q[i] = songs[f[i]]}

\* the shuffled lists shuffleAndSetRoomSongs can store for the room
ShuffleChoices(st, roomCode) ==
  IF Has(st.lobbySongs, roomCode) /\ Len(st.lobbySongs[roomCode]) > 0
  THEN Shuffles(st.lobbySongs[roomCode])
  ELSE {<<>>}

shuffleAndSetRoomSongs(st, roomCode, shuffled) ==
  IF ~Has(st.lobbySongs, roomCode) \/ Len(st.lobbySongs[roomCode]) = 0 THEN st
  ELSE [st EXCEPT !.roomSongs = MapSet(@, roomCode, shuffled)]

ZeroScores(players) == [i \in 1..Len(players) |-> [players[i] EXCEPT !.score = 0]]

startRound(st, code, roundNumber) ==
  LET s1 == cancelAllPendingAnswers(st, code)
      round == [roundNumber |-> roundNumber,
                currentStepIndex |-> 0,
                answered |-> EmptyMap,
                winners |-> <<>>]
  IN  [s1 EXCEPT !.rooms[code].round = round]

startGame(st, code) ==
  LET s1 == [st EXCEPT !.rooms[code].phase = "playing",
                       !.rooms[code].players = ZeroScores(@)]
  IN  startRound(s1, code, 1)

\* the id of the round's song, 0 for undefined
getSongForRound(st, roomCode, roundNumber) ==
  IF ~Has(st.roomSongs, roomCode) THEN 0
  ELSE LET songs == st.roomSongs[roomCode]
       IN  IF Len(songs) = 0 THEN 0
           ELSE songs[((roundNumber - 1) % Len(songs)) + 1]

MinOf(a, b) == IF a <= b THEN a ELSE b

Rejected(reason) ==
  [correct |-> FALSE, reason |-> reason, points |-> 0, position |-> 0,
   allSlotsFilled |-> FALSE]

\* the variant of isCorrect that takes every guess for the round's song
isCorrect_Always(songId, correctSong) == TRUE

\* songId === correctSong.id
isCorrect(songId, correctSong) == songId = correctSong

\* the variant of roundClosed that never closes a round
roundClosed_Never(round, maxScorers) == FALSE

\* round.winners.length >= maxScorers
roundClosed(round, maxScorers) == Len(round.winners) >= maxScorers

\* the variant of alreadyScored that finds no winner
alreadyScored_Never(round, socketId) == FALSE

\* round.winners.some((w) => w.playerId === socketId)
alreadyScored(round, socketId) ==
  \E w \in 1..Len(round.winners) : round.winners[w].playerId = socketId

\* the variant of pointsFor that pays the first entry to every winner
pointsFor_First(scheme, position) == IF Len(scheme) > 0 THEN scheme[1] ELSE 0

\* scheme[position] ?? 0
pointsFor(scheme, position) ==
  IF position + 1 <= Len(scheme) THEN scheme[position + 1] ELSE 0

\* the variant of allSlotsFilled that waits for one winner more
allSlotsFilled_Late(winnerCount, maxScorers) == winnerCount > maxScorers

\* round.winners.length >= maxScorers, after the push
allSlotsFilled(winnerCount, maxScorers) == winnerCount >= maxScorers

submitAnswer(st, code, socketId, songId, songTitle) ==
  LET room == st.rooms[code]
      round == room.round
  IN
  IF round = NullRound THEN [st |-> st, ret |-> Rejected("no-round")]
  ELSE
    LET scheme == room.settings.scoringScheme
        maxScorers == MinOf(Len(scheme), Len(room.players))
    IN
    IF roundClosed(round, maxScorers)
      THEN [st |-> st, ret |-> Rejected("round-closed")]
    ELSE IF alreadyScored(round, socketId)
      THEN [st |-> st, ret |-> Rejected("already-scored")]
    ELSE
      LET s1 == [st EXCEPT !.rooms[code].round.answered =
                              MapSet(@, socketId, songTitle)]
          correctSong == getSongForRound(s1, code, round.roundNumber)
      IN
      IF correctSong = 0 THEN [st |-> s1, ret |-> Rejected("no-round")]
      ELSE IF isCorrect(songId, correctSong)
        THEN
          LET position == Len(round.winners)
              points == pointsFor(scheme, position)
              i == FindPlayer(room.players, socketId)
              nickname == IF i # 0 THEN room.players[i].nickname ELSE ""
              s2 == IF i # 0
                    THEN [s1 EXCEPT !.rooms[code].players[i].score = @ + points]
                    ELSE s1
              s3 == [s2 EXCEPT !.rooms[code].round.winners =
                       Append(@, [playerId |-> socketId, nickname |-> nickname,
                                  points |-> points])]
          IN  [st |-> s3,
               ret |-> [correct |-> TRUE, reason |-> "", points |-> points,
                        position |-> position,
                        allSlotsFilled |->
                          allSlotsFilled(Len(round.winners) + 1, maxScorers)]]
      ELSE [st |-> s1, ret |-> Rejected("wrong")]

\* the value extendDuration returns: a duration or null
NullDuration == [null |-> TRUE, duration |-> 0]
Duration(n) == [null |-> FALSE, duration |-> n]

\* returns the duration of the (possibly advanced) step; null without a round
\* and for an empty list of steps
extendDuration(st, code) ==
  LET room == st.rooms[code]
      round == room.round
  IN
  IF round = NullRound THEN [st |-> st, ret |-> NullDuration]
  ELSE
    LET steps == room.settings.durationSteps
        idx == IF round.currentStepIndex < Len(steps) - 1
               THEN round.currentStepIndex + 1 ELSE round.currentStepIndex
    IN  [st |-> [st EXCEPT !.rooms[code].round.currentStepIndex = idx],
         ret |-> IF idx + 1 <= Len(steps) THEN Duration(steps[idx + 1])
                 ELSE NullDuration]

\* the variant of canAdvanceRound without the comparison of the round
\* number with totalRounds: only an unlimited game advances
canAdvanceRound_Unlimited(room) ==
  room.round # NullRound /\ room.settings.totalRounds = 0

canAdvanceRound(room) ==
  IF room.round = NullRound THEN FALSE
  ELSE IF room.settings.totalRounds = 0 THEN TRUE
  ELSE room.round.roundNumber < room.settings.totalRounds

\* the clean-up of the game module for a deleted room
cleanupRoom(st, roomCode) ==
  LET s1 == cancelAllPendingAnswers(st, roomCode)
  IN  [s1 EXCEPT !.roomSongs = MapDel(@, roomCode),
                 !.lobbySongs = MapDel(@, roomCode)]

endGame(st, code) ==
  LET s1 == [st EXCEPT !.rooms[code].phase = "finished"]
      s2 == cancelAllPendingAnswers(s1, code)
  IN  [s2 EXCEPT !.roomSongs = MapDel(@, code)]

resetToLobby(st, code, shuffled) ==
  LET s1 == [st EXCEPT !.rooms[code].phase = "lobby",
                       !.rooms[code].round = NullRound,
                       !.rooms[code].players = ZeroScores(@)]
      s2 == cancelAllPendingAnswers(s1, code)
  IN  shuffleAndSetRoomSongs(s2, code, shuffled)

\* ------------------------------------------------------ server/socket.ts
\* inputs the clients send
HandicapInputs == {-1, 5, MaxHandicap + 1}
NicknameInputs == {" Player 2", "Neo\r", "﻿  "}
SettingsInputs == {[totalRounds |-> 1], [scoringScheme |-> <<3, 1>>],
                   [durationSteps |-> <<1, 0>>]}

\* String.prototype.trim strips the white space and the line terminators of
\* ECMAScript, 25 characters.  A string constant holds 9 of them: tab, line
\* feed, vertical tab, form feed, carriage return, space, no-break space,
\* U+1680 and U+FEFF.  The other 16 (U+2000 to U+200A, U+2028, U+2029,
\* U+202F, U+205F, U+3000) are lexical errors inside a string constant, so
\* no string of the module contains one, and trim is String.prototype.trim
\* on every string the module can hold.
WhiteSpace ==
  {"\t", "\n", "", "\f", "\r", " ", " ", " ", "﻿"}
RECURSIVE trimStart(_)
trimStart(str) ==
  IF Len(str) > 0 /\ SubSeq(str, 1, 1) \in WhiteSpace
  THEN trimStart(SubSeq(str, 2, Len(str))) ELSE str
RECURSIVE trimEnd(_)
trimEnd(str) ==
  IF Len(str) > 0 /\ SubSeq(str, Len(str), Len(str)) \in WhiteSpace
  THEN trimEnd(SubSeq(str, 1, Len(str) - 1)) ELSE str
trim(str) == trimEnd(trimStart(str))
SongListInputs == {[i \in 1..NumSongs |-> i]}

\* an emitted event: its name, its target (a room code or a socket id) and
\* the part of its payload the handlers compute
Ev(ev, to, info, n) == [ev |-> ev, to |-> to, info |-> info, n |-> n]
Cb(socketId, res) == Ev("cb", socketId, res, <<>>)
RoomStateEv(code) == Ev("room:state", code, "", <<>>)

\* a timer: its kind and what its callback closes over
Timer(kind, a) == [kind |-> kind, a |-> a]
NoTimer == Timer("", <<>>)

\* the handler of an inbound event left the maps as st and emitted events
Done(st, events) == Commit(st) /\ fired' = NoTimer /\ out' = events

\* the callback of a timer left the maps as st and emitted events
Fired(timer, st, events) == Commit(st) /\ fired' = timer /\ out' = events

\* a handler that returns before changing or emitting anything
Ignore == Done(State, <<>>)

Open(s) == conn[s] = "open"

OnConnection(s) ==
  /\ conn[s] = "new"
  /\ \A t \in Sockets : t < s => conn[t] # "new"
  /\ conn' = [conn EXCEPT ![s] = "open"]
  /\ Done([State EXCEPT !.socketToSession = MapSet(@, s, SessionOf(s))],
          <<Ev("session:id", s, "", <<SessionOf(s)>>)>>)

\* code: the value Math.random makes generateCode return
RoomCreate(s, code) ==
  /\ Open(s)
  /\ code \in generateCode(State)
  /\ LET r == createRoom(State, s, SessionOf(s), code)
     IN  Done(r.st,
              <<Ev("cb", s, "ok", <<r.ret>>), RoomStateEv(r.ret)>>)
  /\ UNCHANGED conn

RoomCheck(s, code) ==
  /\ Open(s)
  /\ Done(State,
          <<Cb(s, IF ~Has(rooms, code) THEN "missing"
                  ELSE IF rooms[code].phase = "lobby" THEN "exists"
                  ELSE IF isGameParticipant(State, code, SessionOf(s))
                       THEN "exists" ELSE "missing")>>)
  /\ UNCHANGED conn

RoomJoin(s, code) ==
  /\ Open(s)
  /\ LET r == joinRoom(State, code, s, SessionOf(s))
         room == r.st.rooms[code]
     IN  Done(r.st,
              IF r.ret # "ok" THEN <<Cb(s, r.ret)>>
              ELSE <<Cb(s, "ok"), RoomStateEv(code)>>
                   \o (IF room.phase = "lobby" /\ Has(r.st.lobbySongs, code)
                       THEN <<Ev("lobby:songs", s, "", <<>>)>> ELSE <<>>)
                   \o (IF room.phase = "playing" /\ room.round # NullRound
                       THEN (IF Has(r.st.roomSongs, code)
                             THEN <<Ev("game:songs", s, "", <<>>)>> ELSE <<>>)
                            \o <<Ev("game:round", s, "", <<room.round.roundNumber>>)>>
                       ELSE <<>>))
  /\ UNCHANGED conn

RoomLeave(s) ==
  /\ Open(s)
  /\ LET r == leaveRoom(State, s)
     IN  Done(r.st,
              IF r.ret.null THEN <<>> ELSE <<RoomStateEv(r.ret.code)>>)
  /\ UNCHANGED conn

RoomNickname(s, nickname) ==
  /\ Open(s)
  /\ LET code == getRoomBySocket(State, s)
     IN  IF code = 0 THEN Done(State, <<Cb(s, "Not in a room")>>)
         ELSE IF trim(nickname) = ""
           THEN Done(State, <<Cb(s, "Nickname is required")>>)
         ELSE LET r == setNickname(State, code, s, trim(nickname))
              IN  Done(r.st,
                       IF r.ret # "ok" THEN <<Cb(s, r.ret)>>
                       ELSE <<Cb(s, "ok"), RoomStateEv(code)>>)
  /\ UNCHANGED conn

RoomHandicap(s, seconds) ==
  /\ Open(s)
  /\ LET code == getRoomBySocket(State, s)
     IN  IF code = 0 THEN Done(State, <<Cb(s, "Not in a room")>>)
         ELSE LET r == setHandicap(State, code, s, seconds)
              IN  Done(r.st,
                       IF r.ret # "ok" THEN <<Cb(s, r.ret)>>
                       ELSE <<Cb(s, "ok"), RoomStateEv(code)>>)
  /\ UNCHANGED conn

\* the variant of HostOf that accepts any connection with a room
HostOf_AnyPlayer(s) == getRoomBySocket(State, s)

\* the check the host-only handlers share: the code of the room the socket is
\* host of, 0 when the handler returns at once
HostOf(s) ==
  LET code == getRoomBySocket(State, s)
  IN  IF code # 0 /\ isHost(s, rooms[code]) THEN code ELSE 0

LobbySongs(s, songs) ==
  /\ Open(s)
  /\ LET code == HostOf(s)
     IN  IF code = 0 \/ rooms[code].phase # "lobby" THEN Ignore
         ELSE Done(setLobbySongs(State, code, songs),
                   <<Ev("lobby:songs", code, "", <<>>)>>)
  /\ UNCHANGED conn

RoomSettings(s, settings) ==
  /\ Open(s)
  /\ LET code == HostOf(s)
     IN  IF code = 0 THEN Ignore
         ELSE Done(updateSettings(State, code, settings),
                   <<RoomStateEv(code)>>)
  /\ UNCHANGED conn

GameStart(s) ==
  /\ Open(s)
  /\ LET code == HostOf(s)
     IN  IF code = 0 THEN Ignore
         ELSE Done(startGame(saveGameParticipants(State, code), code),
                   <<Ev("game:songs", code, "", <<>>), RoomStateEv(code),
                     Ev("game:round", code, "", <<1>>)>>)
  /\ UNCHANGED conn

GamePlay(s) ==
  /\ Open(s)
  /\ LET code == HostOf(s)
     IN  IF code = 0 \/ rooms[code].round = NullRound THEN Ignore
         ELSE LET round == rooms[code].round
                  steps == rooms[code].settings.durationSteps
              IN  IF getSongForRound(State, code, round.roundNumber) = 0
                  THEN Ignore
                  ELSE Done(State,
                            <<Ev("game:play-song", code, "",
                                 <<round.roundNumber - 1,
                                   IF round.currentStepIndex + 1 <= Len(steps)
                                   THEN steps[round.currentStepIndex + 1]
                                   ELSE 1>>)>>)
  /\ UNCHANGED conn

GameAnswer(s, songId, songTitle) ==
  /\ Open(s)
  /\ LET code == getRoomBySocket(State, s)
     IN  IF code = 0 \/ rooms[code].round = NullRound THEN Ignore
         ELSE IF ~SomePlayer(rooms[code].players, s) THEN Ignore
         ELSE LET player == rooms[code].players[FindPlayer(rooms[code].players, s)]
              IN  Done(addPendingAnswer(State, code, s,
                         [songId |-> songId, songTitle |-> songTitle,
                          roundNumber |-> rooms[code].round.roundNumber,
                          delay |-> player.handicapSeconds, older |-> {}]),
                       <<>>)
  /\ UNCHANGED conn

\* the variant of CurrentRoomOf that does not compare round numbers
CurrentRoomOf_AnyRound(st, socketId, roundNumber) ==
  LET cur == getRoomBySocket(st, socketId)
  IN  IF cur = 0 THEN 0
      ELSE IF st.rooms[cur].round = NullRound THEN 0
      ELSE cur

\* the room the timer callback re-fetches, 0 when it returns at once
CurrentRoomOf(st, socketId, roundNumber) ==
  LET cur == getRoomBySocket(st, socketId)
  IN  IF cur = 0 THEN 0
      ELSE IF st.rooms[cur].round = NullRound THEN 0
      ELSE IF st.rooms[cur].round.roundNumber # roundNumber THEN 0
      ELSE cur

\* the setTimeout callback of game:answer, for the pending answer that
\* socket s registered under roomCode
AnswerTimer(roomCode, s) ==
  /\ Has(pendingAnswers, roomCode)
  /\ Has(pendingAnswers[roomCode], s)
  /\ LET p == pendingAnswers[roomCode][s]
         timer == Timer("answer", <<roomCode, s, p.roundNumber, p.songId>>)
         s1 == cancelPendingAnswer(State, roomCode, s)
         cur == CurrentRoomOf(s1, s, p.roundNumber)
     IN  IF cur = 0 THEN Fired(timer, s1, <<>>)
         ELSE
           LET r == submitAnswer(s1, cur, s, p.songId, p.songTitle)
               i == FindPlayer(r.st.rooms[cur].players, s)
               nickname == IF i # 0 THEN r.st.rooms[cur].players[i].nickname
                           ELSE ""
           IN  IF r.ret.correct
               THEN Fired(timer,
                          IF r.ret.allSlotsFilled
                          THEN cancelAllPendingAnswers(r.st, cur) ELSE r.st,
                          <<Ev("game:scored", cur, nickname,
                               <<s, r.ret.points, r.ret.position>>),
                            RoomStateEv(cur)>>
                          \o (IF r.ret.allSlotsFilled
                              THEN <<Ev("game:reveal", cur, "", <<>>)>>
                              ELSE <<>>))
               ELSE Fired(timer, r.st,
                          IF r.ret.reason = "wrong"
                          THEN <<Ev("game:wrong-answer", s, "", <<p.songTitle>>)>>
                          ELSE <<>>)
  /\ UNCHANGED conn

GameExtend(s) ==
  /\ Open(s)
  /\ LET code == HostOf(s)
     IN  IF code = 0 \/ rooms[code].round = NullRound THEN Ignore
         ELSE LET r == extendDuration(State, code)
              IN  Done(r.st,
                       IF r.ret # NullDuration
                       THEN <<Ev("game:extended", code, "",
                                 <<r.st.rooms[code].round.currentStepIndex>>)>>
                       ELSE <<>>)
  /\ UNCHANGED conn

GameCloseAnswers(s) ==
  /\ Open(s)
  /\ LET code == HostOf(s)
     IN  IF code = 0 \/ rooms[code].round = NullRound THEN Ignore
         ELSE Done(cancelAllPendingAnswers(State, code),
                   IF getSongForRound(State, code,
                                      rooms[code].round.roundNumber) # 0
                   THEN <<Ev("game:reveal", code, "", <<>>)>> ELSE <<>>)
  /\ UNCHANGED conn

GameNext(s) ==
  /\ Open(s)
  /\ LET code == HostOf(s)
     IN  IF code = 0 \/ rooms[code].round = NullRound THEN Ignore
         ELSE IF canAdvanceRound(rooms[code])
         THEN /\ rooms[code].round.roundNumber < MaxRound
              /\ Done(startRound(State, code, rooms[code].round.roundNumber + 1),
                      <<Ev("game:round", code, "",
                           <<rooms[code].round.roundNumber + 1>>)>>)
         ELSE Done(endGame(State, code),
                   <<Ev("game:finished", code, "", <<>>), RoomStateEv(code)>>)
  /\ UNCHANGED conn

GameEnd(s) ==
  /\ Open(s)
  /\ LET code == HostOf(s)
     IN  IF code = 0 THEN Ignore
         ELSE Done(endGame(State, code),
                   <<Ev("game:finished", code, "", <<>>), RoomStateEv(code)>>)
  /\ UNCHANGED conn

GameBackToLobby(s) ==
  /\ Open(s)
  /\ LET code == HostOf(s)
     IN  IF code = 0 THEN Ignore
         ELSE \E shuffled \in ShuffleChoices(State, code) :
                Done(resetToLobby(State, code, shuffled),
                     <<RoomStateEv(code)>>)
  /\ UNCHANGED conn

Disconnect(s) ==
  /\ Open(s)
  /\ conn' = [conn EXCEPT ![s] = "closed"]
  /\ LET code == getRoomBySocket(State, s)
         s1 == IF code # 0 THEN cancelPendingAnswer(State, code, s) ELSE State
         r == leaveRoom(s1, s)
     IN  Done(r.st,
              IF r.ret.null THEN <<>> ELSE <<RoomStateEv(r.ret.code)>>)

\* the setTimeout callback of scheduleDeletion
DeletionTimer(code) ==
  /\ DeletionDue(State, code)
  /\ LET s1 == [State EXCEPT !.deletionTimeouts[code] = @ - 1,
                             !.scheduledDeletions = @ \ {code}]
         s2 == IF s1.onDeletionExpired = "null" THEN s1
               ELSE cleanupRoom(s1, code)
     IN  Fired(Timer("deletion", <<code>>), deleteRoom(s2, code), <<>>)
  /\ UNCHANGED conn

\* the module that hosts the server registers the clean-up of the game
\* module as deletion callback; the handlers of socket.ts never do
SetDeletionCallback ==
  /\ onDeletionExpired = "null"
  /\ Done(setDeletionCallback(State, "cleanupRoom"), <<>>)
  /\ UNCHANGED conn

\* ----------------------------------------------------------- behaviours
EmptyState ==
  [rooms |-> EmptyMap, socketToRoom |-> EmptyMap, socketToSession |-> EmptyMap,
   roomNicknames |-> EmptyMap, nextPlayerNumber |-> EmptyMap,
   gameParticipants |-> EmptyMap, roomHostSession |-> EmptyMap,
   playerState |-> EmptyMap, scheduledDeletions |-> {},
   deletionTimeouts |-> [code \in Codes |-> 0],
   pendingAnswers |-> EmptyMap, roomSongs |-> EmptyMap, lobbySongs |-> EmptyMap,
   onDeletionExpired |-> "null"]

IsState(st) ==
  /\ rooms = st.rooms
  /\ socketToRoom = st.socketToRoom
  /\ socketToSession = st.socketToSession
  /\ roomNicknames = st.roomNicknames
  /\ nextPlayerNumber = st.nextPlayerNumber
  /\ gameParticipants = st.gameParticipants
  /\ roomHostSession = st.roomHostSession
  /\ playerState = st.playerState
  /\ scheduledDeletions = st.scheduledDeletions
  /\ deletionTimeouts = st.deletionTimeouts
  /\ pendingAnswers = st.pendingAnswers
  /\ roomSongs = st.roomSongs
  /\ lobbySongs = st.lobbySongs
  /\ onDeletionExpired = st.onDeletionExpired

Init ==
  /\ IsState(EmptyState)
  /\ conn = [s \in Sockets |-> "new"]
  /\ fired = NoTimer
  /\ out = <<>>

Next ==
  \/ \E s \in Sockets : OnConnection(s)
  \/ \E s \in Sockets, code \in Codes : RoomCreate(s, code)
  \/ \E s \in Sockets, code \in Codes : RoomCheck(s, code)
  \/ \E s \in Sockets, code \in Codes : RoomJoin(s, code)
  \/ \E s \in Sockets : RoomLeave(s)
  \/ \E s \in Sockets, nickname \in NicknameInputs : RoomNickname(s, nickname)
  \/ \E s \in Sockets, seconds \in HandicapInputs : RoomHandicap(s, seconds)
  \/ \E s \in Sockets, songs \in SongListInputs : LobbySongs(s, songs)
  \/ \E s \in Sockets, settings \in SettingsInputs : RoomSettings(s, settings)
  \/ \E s \in Sockets : GameStart(s)
  \/ \E s \in Sockets : GamePlay(s)
  \/ \E s \in Sockets, songId \in Songs : GameAnswer(s, songId, songId)
  \/ \E code \in Codes, s \in Sockets : AnswerTimer(code, s)
  \/ \E s \in Sockets : GameExtend(s)
  \/ \E s \in Sockets : GameCloseAnswers(s)
  \/ \E s \in Sockets : GameNext(s)
  \/ \E s \in Sockets : GameEnd(s)
  \/ \E s \in Sockets : GameBackToLobby(s)
  \/ \E s \in Sockets : Disconnect(s)
  \/ \E code \in Codes : DeletionTimer(code)
  \/ SetDeletionCallback

Spec == Init /\ [][Next]_vars

\* --------------------------------------------------------------- scenes
\* The behaviours of the whole server are too many to enumerate, so the
\* claims are checked on scenes: the same handlers, started in the initial
\* state or in a lobby the handlers reach from it, with the clients
\* restricted to the events the scene is about.

RECURSIVE JoinAll(_, _, _, _)
JoinAll(st, code, n, last) ==
  IF n > last THEN st
  ELSE JoinAll(joinRoom(st, code, n, SessionOf(n)).st, code, n + 1, last)

\* connections 1..n are open, connection 1 has created room FirstCode, the
\* others have joined it in order, and the host has sent the lobby song list
LobbyState(n) ==
  LET c == [EmptyState EXCEPT
              !.socketToSession = [s \in 1..n |-> SessionOf(s)]]
      r == createRoom(c, 1, SessionOf(1), FirstCode).st
      j == JoinAll(r, FirstCode, 2, n)
  IN  setLobbySongs(j, FirstCode, [i \in 1..NumSongs |-> i])

InitLobby(n) ==
  /\ IsState(LobbyState(n))
  /\ conn = [s \in Sockets |-> IF s <= n THEN "open" ELSE "new"]
  /\ fired = NoTimer
  /\ out = <<Ev("lobby:songs", FirstCode, "", <<>>)>>

\* ------------------------------------------------- scene: cross-room
\* Connections 1..NumRoamers create, join and leave rooms under every code,
\* start games, advance rounds and answer with or without a handicap, while
\* answer timers and deletion timers run.
Roamers == 1..NumRoamers

NextCross ==
  \/ \E s \in Roamers : OnConnection(s)
  \/ \E s \in Roamers, code \in Codes : RoomCreate(s, code)
  \/ \E s \in Roamers, code \in Codes : RoomJoin(s, code)
  \/ \E s \in Roamers : RoomLeave(s)
  \/ \E s \in Roamers : RoomHandicap(s, 5)
  \/ \E s \in Roamers : GameStart(s)
  \/ \E s \in Roamers : GameNext(s)
  \/ \E s \in Roamers, songId \in Songs : GameAnswer(s, songId, songId)
  \/ \E code \in Codes, s \in Roamers : AnswerTimer(code, s)
  \/ \E code \in Codes : DeletionTimer(code)

SpecCross == Init /\ [][NextCross]_vars

\* --------------------------------------------------------------- claims
\* what the timer callback that ran last closed over
FiredAnswer == fired.kind = "answer"
FiredCode == fired.a[1]
FiredSocket == fired.a[2]
FiredRound == fired.a[3]
FiredSong == fired.a[4]

\* the room connection s is in has no round, or there is no such room
NoRoundFor(s) ==
  \/ ~Has(socketToRoom, s)
  \/ ~Has(rooms, socketToRoom[s])
  \/ rooms[socketToRoom[s]].round = NullRound

\* the room connection s is in is in a round other than round r
OtherRoundFor(s, r) ==
  /\ ~NoRoundFor(s)
  /\ rooms[socketToRoom[s]].round.roundNumber # r

\* every pending answer of a room that is in a round was submitted in that
\* round: starting a round cancels the answers pending for the room
PendingCurrent ==
  \A c \in DOMAIN pendingAnswers : \A s \in DOMAIN pendingAnswers[c] :
    (Has(rooms, c) /\ rooms[c].round # NullRound)
      => pendingAnswers[c][s].roundNumber = rooms[c].round.roundNumber

\* C1: when the timer of a pending answer fires and the room the callback
\* looks up has no round, or is in a round whose number differs from the one
\* recorded at submission, the callback changes no room (no score, no winner,
\* no submitted title) and emits no event; and an answer pending for a room
\* never outlives the round it was submitted in, so a guess submitted before
\* the host advances the round is never scored.
C1_StaleResolution ==
  [][/\ (FiredAnswer' /\ (NoRoundFor(FiredSocket') \/
                          OtherRoundFor(FiredSocket', FiredRound')))
        => (rooms' = rooms /\ out' = <<>>)
     /\ PendingCurrent']_vars

\* a callback found the connection's room in another round than the recorded
C1_Witness ==
  /\ FiredAnswer
  /\ OtherRoundFor(FiredSocket, FiredRound)
  /\ out = <<>>

\* C2: the callback of an answer submitted in one room changes no other room.
C2_OnlyOwnRoom ==
  [][FiredAnswer' =>
       \A d \in DOMAIN rooms :
         d # FiredCode' => (Has(rooms', d) /\ rooms'[d] = rooms[d])]_vars

\* the acknowledgement of room:create in the events of the last handler
CreateAck(s, code) ==
  Len(out) > 0 /\ out[1] = Ev("cb", s, "ok", <<code>>)

\* C3: room:create answers with a code that was not in the room table, empty
\* rooms awaiting deletion included, and leaves every room of the table as it
\* was; every room of the table is filed under its own code.
C3_FreshCode ==
  [][/\ \A s \in Sockets, code \in Codes :
          CreateAck(s, code)' =>
            /\ ~Has(rooms, code)
            /\ \A d \in DOMAIN rooms : Has(rooms', d) /\ rooms'[d] = rooms[d]
     /\ \A d \in DOMAIN rooms' : rooms'[d].code = d]_vars

\* a room was created while an empty room was awaiting deletion
C3_Witness ==
  \E s \in Sockets, code \in Codes :
    /\ CreateAck(s, code)
    /\ \E d \in DOMAIN rooms :
         d # code /\ Len(rooms[d].players) = 0 /\ d \in scheduledDeletions

\* --------------------------------------------------- scene: registry
\* Every connection creates, joins and leaves the room under FirstCode or
\* drops, the host starts and ends games and returns to the lobby, and the
\* deletion timer runs.  Connections sharing a session are reconnects.
NextRegistry ==
  \/ \E s \in Sockets : OnConnection(s)
  \/ \E s \in Sockets : RoomCreate(s, FirstCode)
  \/ \E s \in Sockets : RoomJoin(s, FirstCode)
  \/ \E s \in Sockets : RoomLeave(s)
  \/ \E s \in Sockets : Disconnect(s)
  \/ \E s \in Sockets : GameStart(s)
  \/ \E s \in Sockets : GameEnd(s)
  \/ \E s \in Sockets : GameBackToLobby(s)
  \/ DeletionTimer(FirstCode)

SpecRegistry == Init /\ [][NextRegistry]_vars

\* the registry scene with every deletion timer running in the end
SpecGrace ==
  SpecRegistry /\ \A code \in Codes : WF_vars(DeletionTimer(code))

IsParticipant(c, s) ==
  Has(gameParticipants, c) /\ SessionOf(s) \in gameParticipants[c]

\* C4: in every reachable state and for every connection, joinRoom on a room
\* out of the lobby succeeds only for a session in the set recorded when the
\* game was started, and for any other connection not yet in the room it
\* answers "Game already in progress" and leaves the rooms unchanged; joinRoom
\* on a room in the lobby succeeds for every connection that is not a player
\* of the room while the room is below the player cap.
C4_JoinGate ==
  \A s \in Sockets : \A c \in DOMAIN rooms :
    LET r == joinRoom(State, c, s, SessionOf(s))
        member == SomePlayer(rooms[c].players, s)
    IN  /\ (rooms[c].phase # "lobby" /\ r.ret = "ok") => IsParticipant(c, s)
        /\ (rooms[c].phase # "lobby" /\ ~IsParticipant(c, s) /\ ~member)
             => (r.ret = "Game already in progress" /\ r.st.rooms = rooms)
        /\ (rooms[c].phase = "lobby" /\ ~member
              /\ Len(rooms[c].players) < PlayerCap)
             => (r.ret = "ok" /\ SomePlayer(r.st.rooms[c].players, s))

\* a connection has joined a room that is in a game: the handler sent it the
\* running round
C4_Witness ==
  \E s \in Sockets : \E c \in DOMAIN rooms :
    /\ rooms[c].phase = "playing"
    /\ SomePlayer(rooms[c].players, s)
    /\ IsParticipant(c, s)
    /\ Len(out) > 0
    /\ out[Len(out)] = Ev("game:round", s, "", <<rooms[c].round.roundNumber>>)

\* the only player of room c, its host, leaves or drops during a game
SoleHostLeaves(c) ==
  /\ Has(rooms, c) /\ Has(rooms', c)
  /\ rooms[c].phase = "playing"
  /\ Len(rooms[c].players) = 1
  /\ rooms[c].players[1].isHost
  /\ Len(rooms'[c].players) = 0

\* a connection of the host's session joins room c, empty and in a game
HostReturns(c) ==
  /\ Has(rooms, c) /\ Has(rooms', c)
  /\ rooms[c].phase = "playing"
  /\ Len(rooms[c].players) = 0
  /\ Len(rooms'[c].players) = 1
  /\ Has(roomHostSession, c)
  /\ SessionOf(rooms'[c].players[1].id) = roomHostSession[c]

\* C9 as stated: when the host, sole player of a room in phase playing,
\* leaves, the phase of the room becomes paused.
C9_SoleHostPauses ==
  [][\A c \in Codes : SoleHostLeaves(c) => rooms'[c].phase = "paused"]_vars

\* C9 amended: when the host, sole player of a room in phase playing, leaves,
\* the room stays in phase playing with its round as it was and its deletion
\* timer is armed; when a connection of the host's session then joins, it is
\* the host, the timer is cancelled, and phase and round are still the same.
C9_SoleHostKeepsPlaying ==
  [][\A c \in Codes :
       /\ SoleHostLeaves(c) =>
            /\ rooms'[c].phase = "playing"
            /\ rooms'[c].round = rooms[c].round
            /\ c \in scheduledDeletions'
       /\ HostReturns(c) =>
            /\ rooms'[c].phase = "playing"
            /\ rooms'[c].round = rooms[c].round
            /\ rooms'[c].players[1].isHost
            /\ c \notin scheduledDeletions']_vars

\* the host's session has come back, on another connection, to the room it
\* had left empty in a game
C9_Witness ==
  \E c \in DOMAIN rooms :
    /\ rooms[c].phase = "playing"
    /\ Len(rooms[c].players) = 1
    /\ rooms[c].players[1].isHost
    /\ SessionOf(rooms[c].players[1].id) = roomHostSession[c]
    /\ conn[rooms[c].players[1].id] = "open"
    /\ \E t \in Sockets : t # rooms[c].players[1].id /\ conn[t] = "closed"
                          /\ SessionOf(t) = roomHostSession[c]
    /\ Len(out) > 0
    /\ out[Len(out)] = Ev("game:round", rooms[c].players[1].id, "",
                          <<rooms[c].round.roundNumber>>)

\* C10: a room that has become empty is in the end deleted unless a join
\* succeeds first.
C10_EmptyRoomDeleted ==
  \A c \in Codes :
    (Has(rooms, c) /\ Len(rooms[c].players) = 0)
      ~> (~Has(rooms, c) \/ Len(rooms[c].players) > 0)

\* ---------------------------------------------------- scene: scoring
\* All connections are players of one room with the song list set; the host
\* returns to the lobby, starts games and changes the scoring scheme while
\* the players answer and their answer timers run.
NextScore ==
  \/ \E s \in Sockets : GameBackToLobby(s)
  \/ \E s \in Sockets : GameStart(s)
  \/ \E s \in Sockets, songId \in Songs : GameAnswer(s, songId, songId)
  \/ \E code \in Codes, s \in Sockets : AnswerTimer(code, s)
  \/ \E s \in Sockets : RoomSettings(s, [scoringScheme |-> <<3, 1>>])
  \/ \E s \in Sockets : GameCloseAnswers(s)

SpecScore == InitLobby(NumSockets) /\ [][NextScore]_vars

\* ------------------------------------------------------ scene: stray
\* Connection 2 plays in its own room, with or without a handicap, and
\* strays into the room of connection 1, which leaves its room to be deleted
\* and creates it anew under the same code, while answers are pending.
NextStray ==
  \/ \E s \in {1, 2} : OnConnection(s)
  \/ RoomCreate(2, FirstCode)
  \/ RoomCreate(1, FirstCode + 1)
  \/ RoomJoin(2, FirstCode + 1)
  \/ RoomHandicap(2, 5)
  \/ RoomLeave(1)
  \/ \E s \in {1, 2}, songs \in SongListInputs : LobbySongs(s, songs)
  \/ \E s \in {1, 2} : GameBackToLobby(s)
  \/ \E s \in {1, 2} : GameStart(s)
  \/ \E s \in {1, 2} : GameAnswer(s, 1, 1)
  \/ \E code \in Codes, s \in {1, 2} : AnswerTimer(code, s)
  \/ DeletionTimer(FirstCode + 1)

SpecStray == Init /\ [][NextStray]_vars

\* --------------------------------------------------- scene: handicap
\* Two players of one room ask for handicaps in and out of range, in the
\* lobby and during and after games in which they answer.
NextHandicap ==
  \/ \E s \in 1..NumSessions, seconds \in HandicapInputs : RoomHandicap(s, seconds)
  \/ \E s \in 1..NumSessions : GameBackToLobby(s)
  \/ \E s \in 1..NumSessions : GameStart(s)
  \/ \E s \in 1..NumSessions : GameEnd(s)
  \/ \E s \in 1..NumSessions, songId \in Songs : GameAnswer(s, songId, songId)
  \/ \E code \in Codes, s \in 1..NumSessions : AnswerTimer(code, s)

SpecHandicap == InitLobby(NumSessions) /\ [][NextHandicap]_vars

\* the winners of a round, and the round itself when it is not null
WinnersOf(room) == IF room.round = NullRound THEN <<>> ELSE room.round.winners

\* room c stays in the round it is in, keeping the winners it has
SameRound(c) ==
  /\ Has(rooms, c) /\ Has(rooms', c)
  /\ rooms[c].round # NullRound /\ rooms'[c].round # NullRound
  /\ rooms'[c].round.roundNumber = rooms[c].round.roundNumber
  /\ Len(rooms'[c].round.winners) >= Len(rooms[c].round.winners)
  /\ SubSeq(rooms'[c].round.winners, 1, Len(rooms[c].round.winners))
       = rooms[c].round.winners

\* one winner is appended to the round of room c
WinnerAppended(c) ==
  /\ SameRound(c)
  /\ Len(rooms'[c].round.winners) = Len(rooms[c].round.winners) + 1

\* the score of the player with the given id, -1 when there is none
ScoreOf(room, id) ==
  IF SomePlayer(room.players, id)
  THEN room.players[FindPlayer(room.players, id)].score ELSE -1

\* C5: while a round lasts, a player who holds a winner slot of the round is
\* never appended to the winners again and the player's score does not
\* change, whatever further guesses of the player are resolved; so no player
\* holds two slots of a round.
C5_ScoringIdempotence ==
  [][\A c \in Codes :
       /\ SameRound(c) =>
            \A i \in 1..Len(rooms[c].round.winners) :
              LET id == rooms[c].round.winners[i].playerId
              IN  /\ \A j \in (Len(rooms[c].round.winners) + 1)
                                ..Len(rooms'[c].round.winners) :
                         rooms'[c].round.winners[j].playerId # id
                  /\ (SomePlayer(rooms[c].players, id)
                        /\ SomePlayer(rooms'[c].players, id))
                       => ScoreOf(rooms'[c], id) = ScoreOf(rooms[c], id)
       /\ Has(rooms', c) =>
            \A i, j \in 1..Len(WinnersOf(rooms'[c])) :
              i # j => WinnersOf(rooms'[c])[i].playerId
                         # WinnersOf(rooms'[c])[j].playerId]_vars

\* the timer of a correct guess of a player who already holds a slot of the
\* open round has run and has been turned down
C5_Witness ==
  /\ FiredAnswer
  /\ ~OtherRoundFor(FiredSocket, FiredRound) /\ ~NoRoundFor(FiredSocket)
  /\ LET room == rooms[socketToRoom[FiredSocket]]
     IN  /\ alreadyScored(room.round, FiredSocket)
         /\ Len(room.round.winners)
              < MinOf(Len(room.settings.scoringScheme), Len(room.players))
         /\ FiredSong = getSongForRound(State, room.code, FiredRound)
  /\ out = <<>>

\* C6: the winner appended as the i-th of a round (counted from 0) is
\* recorded with scoringScheme[i] points, 0 when the scheme has no such
\* entry; it is a player of the room, and its score grows by exactly these
\* points.
C6_RankPoints ==
  [][\A c \in Codes :
       WinnerAppended(c) =>
         LET i == Len(rooms[c].round.winners)
             scheme == rooms[c].settings.scoringScheme
             pts == IF i < Len(scheme) THEN scheme[i + 1] ELSE 0
             win == rooms'[c].round.winners[i + 1]
         IN  /\ win.points = pts
             /\ SomePlayer(rooms[c].players, win.playerId)
             /\ ScoreOf(rooms'[c], win.playerId)
                  = ScoreOf(rooms[c], win.playerId) + pts]_vars

\* a second winner of a round has been recorded with and credited the second
\* entry of the scheme, after the first one with the first entry
C6_Witness ==
  \E c \in DOMAIN rooms :
    /\ FiredAnswer
    /\ Len(WinnersOf(rooms[c])) = 2
    /\ rooms[c].round.winners[2].playerId = FiredSocket
    /\ rooms[c].round.winners[1].points = rooms[c].settings.scoringScheme[1]
    /\ rooms[c].round.winners[2].points = rooms[c].settings.scoringScheme[2]
    /\ ScoreOf(rooms[c], FiredSocket) = rooms[c].settings.scoringScheme[2]

\* the round of room c is revealed by the handler that ran last
Revealed(c) ==
  \E k \in 1..Len(out) : out[k] = Ev("game:reveal", c, "", <<>>)

\* C7: the callback that appends a winner reports the slots full (and reveals
\* the round) exactly when the winners then number min(scoringScheme.length,
\* playerCount); with the scheme [4,2,1] and three players without handicap
\* the first, second and third winner gain 4, 2 and 1 points and only the
\* third fills the slots.
C7_SlotsFull ==
  [][\A c \in Codes :
       WinnerAppended(c) =>
         LET n == Len(rooms'[c].round.winners)
             scheme == rooms[c].settings.scoringScheme
             win == rooms'[c].round.winners[n]
         IN  /\ Revealed(c)' <=> (n = MinOf(Len(scheme), Len(rooms[c].players)))
             /\ (scheme = <<4, 2, 1>> /\ Len(rooms[c].players) = 3)
                  => /\ ScoreOf(rooms'[c], win.playerId)
                          = ScoreOf(rooms[c], win.playerId) + <<4, 2, 1>>[n]
                     /\ Revealed(c)' <=> (n = 3)]_vars

\* three players have answered correctly in the order of their arrival under
\* the scheme [4,2,1]: they hold 4, 2 and 1 points and the round is revealed
C7_Witness ==
  \E c \in DOMAIN rooms :
    /\ rooms[c].settings.scoringScheme = <<4, 2, 1>>
    /\ Len(rooms[c].players) = 3
    /\ \A k \in 1..3 : rooms[c].players[k].handicapSeconds = 0
    /\ Len(WinnersOf(rooms[c])) = 3
    /\ \A k \in 1..3 :
         /\ rooms[c].round.winners[k].playerId = rooms[c].players[k].id
         /\ rooms[c].round.winners[k].points = <<4, 2, 1>>[k]
         /\ rooms[c].players[k].score = <<4, 2, 1>>[k]
    /\ FiredAnswer /\ FiredSocket = rooms[c].players[3].id
    /\ Revealed(c)

\* C8: in every reachable state, setHandicap with seconds outside
\* 0..MaxHandicap, or on a room that is not in the lobby, returns an error and
\* changes nothing; an accepted setHandicap changes the handicap of the
\* calling player and nothing else.
C8_HandicapGate ==
  \A s \in Sockets : \A c \in DOMAIN rooms :
    \A seconds \in HandicapInputs \cup {0, MaxHandicap} :
      LET r == setHandicap(State, c, s, seconds)
          i == FindPlayer(rooms[c].players, s)
      IN  /\ (seconds < 0 \/ seconds > MaxHandicap \/ rooms[c].phase # "lobby")
               => (r.ret # "ok" /\ r.st = State)
          /\ r.ret = "ok"
               => /\ i # 0
                  /\ r.st = [State EXCEPT
                               !.rooms[c].players[i].handicapSeconds = seconds]

\* a player with points was refused a handicap during a game
C8_Witness ==
  \E s \in Sockets : \E c \in DOMAIN rooms :
    /\ out = <<Cb(s, "Can only change handicap in lobby")>>
    /\ rooms[c].phase = "playing"
    /\ ScoreOf(rooms[c], s) > 0
    /\ Len(WinnersOf(rooms[c])) > 0

\* a player of room c leaves or drops and the room stays in the table
PlayerLeft(c) ==
  /\ Has(rooms, c) /\ Has(rooms', c)
  /\ Len(rooms'[c].players) < Len(rooms[c].players)

\* a player flagged host is among those who left room c
HostLeft(c) ==
  \E i \in 1..Len(rooms[c].players) :
    /\ rooms[c].players[i].isHost
    /\ ~SomePlayer(rooms'[c].players, rooms[c].players[i].id)

\* room c is taken out of the room table
RoomDeleted(c) == Has(rooms, c) /\ ~Has(rooms', c)

\* room c is in the lobby without players
EmptyLobby(st, c) ==
  Has(st.rooms, c) /\ st.rooms[c].phase = "lobby" /\ Len(st.rooms[c].players) = 0

\* --------------------------------------------------- scene: emptied
\* The last player of a room in the lobby has left it: connections 1 and 2
\* are open, connection 1 has created room FirstCode and left it, and the
\* deletion timer of the room is armed.  Connections join, leave and drop,
\* games are started, ended and reset, and the deletion timer runs.  The
\* room has players only after a join, and every join cancels the timer.
EmptiedState ==
  LET c == [EmptyState EXCEPT
              !.socketToSession = [s \in 1..NumSessions |-> SessionOf(s)]]
      r == createRoom(c, 1, SessionOf(1), FirstCode).st
  IN  leaveRoom(r, 1).st

InitEmptied ==
  /\ IsState(EmptiedState)
  /\ conn = [s \in Sockets |-> IF s <= NumSessions THEN "open" ELSE "new"]
  /\ fired = NoTimer
  /\ out = <<>>

NextEmptied ==
  \/ \E s \in Sockets : OnConnection(s)
  \/ \E s \in Sockets : RoomJoin(s, FirstCode)
  \/ \E s \in Sockets : RoomLeave(s)
  \/ \E s \in Sockets : Disconnect(s)
  \/ \E s \in Sockets : GameStart(s)
  \/ \E s \in Sockets : GameEnd(s)
  \/ \E s \in Sockets : GameBackToLobby(s)
  \/ DeletionTimer(FirstCode)

SpecEmptied == InitEmptied /\ [][NextEmptied]_vars

\* C11 as stated, for a room whose last player has left it in the lobby:
\* while the room is empty in the lobby it is in the room table and a join
\* under its code succeeds and cancels the scheduled deletion; and after
\* such a join the room is not deleted while it has players.
C11_NotDeletedWithPlayers ==
  [][\A c \in Codes :
       /\ EmptyLobby(State', c)
            => \A s \in Sockets :
                 LET r == joinRoom(State', c, s, SessionOf(s))
                 IN  /\ r.ret = "ok"
                     /\ c \notin r.st.scheduledDeletions
       /\ RoomDeleted(c) => Len(rooms[c].players) = 0]_vars

\* C11 amended: the leave that empties a room in the lobby keeps it in the
\* room table with its deletion timer armed; joinRoom on such a room succeeds
\* for every connection and cancels the timer; a room leaves the table only
\* when its deletion timer runs, and the timer is armed only by a leave that
\* finds the room empty or takes a host out of a room that is not in a game.
C11_GraceAndRejoin ==
  [][\A c \in Codes :
       /\ RoomDeleted(c)
            => (c \in scheduledDeletions /\ fired' = Timer("deletion", <<c>>))
       /\ (c \in scheduledDeletions' /\ c \notin scheduledDeletions)
            => /\ Has(rooms, c) /\ Has(rooms', c)
               /\ \/ Len(rooms'[c].players) = 0
                  \/ PlayerLeft(c) /\ HostLeft(c) /\ rooms[c].phase # "playing"
       /\ EmptyLobby(State', c)
            => /\ c \in scheduledDeletions'
               /\ \A s \in Sockets :
                    LET r == joinRoom(State', c, s, SessionOf(s))
                    IN  /\ r.ret = "ok"
                        /\ SomePlayer(r.st.rooms[c].players, s)
                        /\ c \notin r.st.scheduledDeletions]_vars

\* a connection that is not the host has joined the room its last player had
\* left in the lobby, and no deletion timer is armed for the room
C11_Witness ==
  \E c \in DOMAIN rooms :
    /\ rooms[c].phase = "lobby"
    /\ Len(rooms[c].players) = 1
    /\ ~rooms[c].players[1].isHost
    /\ c \notin scheduledDeletions
    /\ Len(out) > 0
    /\ out[1] = Cb(rooms[c].players[1].id, "ok")

\* the players of a room that carry the host flag
HostsOf(room) == {i \in 1..Len(room.players) : room.players[i].isHost}

\* C12: every room has at most one player with the host flag.
C12_AtMostOneHost ==
  \A c \in DOMAIN rooms : Cardinality(HostsOf(rooms[c])) <= 1

\* C13 as stated: every room with a player has a player with the host flag.
C13_HostPresent ==
  \A c \in DOMAIN rooms : Len(rooms[c].players) > 0 => HostsOf(rooms[c]) # {}

\* C13 amended: the players flagged host are exactly the connections of the
\* session that created the room; nobody is promoted when they leave, so a
\* room with players has a host exactly while such a connection is in it.
C13_HostIsHostSession ==
  \A c \in DOMAIN rooms :
    /\ Has(roomHostSession, c)
    /\ \A i \in 1..Len(rooms[c].players) :
         rooms[c].players[i].isHost
           <=> (SessionOf(rooms[c].players[i].id) = roomHostSession[c])

\* the host has left a game: the room is paused, and its remaining players
\* are without a host
C13_Witness ==
  \E c \in DOMAIN rooms :
    /\ rooms[c].phase = "paused"
    /\ Len(rooms[c].players) > 0
    /\ HostsOf(rooms[c]) = {}
    /\ out = <<RoomStateEv(c)>>

\* ------------------------------------------------------ settings and phase
\* the settings of room c differ across the step
SettingsChanged(c) ==
  /\ Has(rooms, c) /\ Has(rooms', c)
  /\ rooms'[c].settings # rooms[c].settings

\* C14: a room's settings change only while its phase is lobby; a settings
\* update received in any other phase leaves them as they were, the host's
\* included.
C14_SettingsOnlyInLobby ==
  [][\A c \in Codes : SettingsChanged(c) => rooms[c].phase = "lobby"]_vars

\* ------------------------------------------------------ scene: guest
\* The host of a room runs games, leaves and comes back; the other player of
\* the room sends every host-only event; both answer, and answer timers run.
NextGuest ==
  \/ GameStart(1)
  \/ GameNext(1)
  \/ GameEnd(1)
  \/ GameBackToLobby(1)
  \/ RoomLeave(1)
  \/ RoomJoin(1, FirstCode)
  \/ \E songs \in SongListInputs : LobbySongs(2, songs)
  \/ \E settings \in SettingsInputs : RoomSettings(2, settings)
  \/ GameStart(2)
  \/ GamePlay(2)
  \/ GameExtend(2)
  \/ GameCloseAnswers(2)
  \/ GameNext(2)
  \/ GameEnd(2)
  \/ GameBackToLobby(2)
  \/ \E s \in 1..NumSessions, songId \in Songs : GameAnswer(s, songId, songId)
  \/ \E code \in Codes, s \in 1..NumSessions : AnswerTimer(code, s)
  \/ DeletionTimer(FirstCode)

SpecGuest == InitLobby(NumSessions) /\ [][NextGuest]_vars

\* the room that connection s is in without being flagged host in its player
\* list, 0 when there is none
GuestOf(s) ==
  LET code == getRoomBySocket(State, s)
  IN  IF code # 0 /\ ~isHost(s, rooms[code]) THEN code ELSE 0

\* the step is the handling of a host-only event sent by connection s
HostOnlyEvent(s) ==
  \/ \E songs \in SongListInputs : LobbySongs(s, songs)
  \/ \E settings \in SettingsInputs : RoomSettings(s, settings)
  \/ GameStart(s)
  \/ GamePlay(s)
  \/ GameExtend(s)
  \/ GameCloseAnswers(s)
  \/ GameNext(s)
  \/ GameEnd(s)
  \/ GameBackToLobby(s)

\* C15: a host-only event (lobby song list, settings, start, play, extend,
\* close answers, next round, end, back to lobby) sent by a connection that is
\* not flagged host in its room leaves the room (phase, round, settings,
\* scores) and the pending answers as they were and emits nothing.
C15_GuestIgnored ==
  [][\A s \in Sockets :
       (GuestOf(s) # 0 /\ HostOnlyEvent(s))
         => /\ rooms' = rooms
            /\ pendingAnswers' = pendingAnswers
            /\ lobbySongs' = lobbySongs
            /\ out' = <<>>]_vars

\* a guest's host-only event has just been ignored in a running game that has
\* its host and its song list: no handler of the host and no answer leaves
\* such a state without an event, a timer or a pending answer
C15_Witness ==
  /\ Has(rooms, FirstCode)
  /\ rooms[FirstCode].phase = "playing"
  /\ HostsOf(rooms[FirstCode]) = {1}
  /\ Len(rooms[FirstCode].players) = 2
  /\ Has(roomSongs, FirstCode)
  /\ ~Has(pendingAnswers, FirstCode)
  /\ out = <<>>
  /\ fired = NoTimer

\* ------------------------------------------------------------ phases
\* the edges of the phase state machine
PhaseEdges ==
  {<<"lobby", "playing">>, <<"playing", "finished">>, <<"finished", "lobby">>,
   <<"playing", "paused">>, <<"paused", "playing">>}

\* the phase of room c differs across the step
PhaseChanged(c) ==
  /\ Has(rooms, c) /\ Has(rooms', c)
  /\ rooms'[c].phase # rooms[c].phase

\* C16: every change of a room's phase is an edge of the phase state machine:
\* lobby to playing, playing to finished, finished to lobby, playing to
\* paused, paused to playing.
C16_PhaseEdges ==
  [][\A c \in Codes :
       PhaseChanged(c) => <<rooms[c].phase, rooms'[c].phase>> \in PhaseEdges]_vars

\* ------------------------------------------------------ closed answers
\* the step is the handler of game:closeAnswers, run for the host of room c
\* while the room has a round: the pending answers of c are cancelled, and
\* game:reveal is emitted when the round has a song
JustClosed(c) ==
  \E s \in Sockets :
    /\ HostOf(s) = c
    /\ rooms[c].round # NullRound
    /\ GameCloseAnswers(s)

\* the maps after player s of room code has sent game:answer with songId in
\* state st and the timer of that guess has run
GuessResolved(st, code, s, songId) ==
  LET roundNumber == st.rooms[code].round.roundNumber
      s1 == addPendingAnswer(st, code, s,
              [songId |-> songId, songTitle |-> songId,
               roundNumber |-> roundNumber,
               delay |-> st.rooms[code].players[FindPlayer(st.rooms[code].players, s)].handicapSeconds,
               older |-> {}])
      s2 == cancelPendingAnswer(s1, code, s)
      cur == CurrentRoomOf(s2, s, roundNumber)
  IN  IF cur = 0 THEN s2
      ELSE LET r == submitAnswer(s2, cur, s, songId, songId)
           IN  IF r.ret.correct /\ r.ret.allSlotsFilled
               THEN cancelAllPendingAnswers(r.st, cur) ELSE r.st

\* C17: once the host has closed the answers of a round, a guess submitted
\* afterwards adds no winner to the round and changes no score.
C17_ClosedStaysClosed ==
  [][\A c \in Codes :
       JustClosed(c) =>
         \A s \in Sockets, songId \in Songs :
           (getRoomBySocket(State', s) = c /\ SomePlayer(rooms'[c].players, s))
             => LET after == GuessResolved(State', c, s, songId).rooms[c]
                IN  /\ WinnersOf(after) = WinnersOf(rooms'[c])
                    /\ after.players = rooms'[c].players]_vars

\* ------------------------------------------------------------- paused
\* room c is paused before the step and still exists after it
PausedStep(c) ==
  /\ Has(rooms, c) /\ Has(rooms', c)
  /\ rooms[c].phase = "paused"

\* a connection of the recorded host session has joined room c in the step
HostRejoined(c) ==
  /\ Has(roomHostSession, c)
  /\ \E s \in Sockets :
       /\ SessionOf(s) = roomHostSession[c]
       /\ ~SomePlayer(rooms[c].players, s)
       /\ SomePlayer(rooms'[c].players, s)

\* C18: while a room is paused no score changes, no winner is added and the
\* round number and step index stay, whatever answers are submitted and
\* whatever answer timers run; and the phase of a paused room changes only
\* when the recorded host session rejoins.
C18_PausedFrozen ==
  [][\A c \in Codes :
       PausedStep(c)
         => /\ \A s \in Sockets :
                 (SomePlayer(rooms[c].players, s) /\ SomePlayer(rooms'[c].players, s))
                   => ScoreOf(rooms'[c], s) = ScoreOf(rooms[c], s)
            /\ rooms[c].round # NullRound
                 => /\ rooms'[c].round # NullRound
                    /\ rooms'[c].round.winners = rooms[c].round.winners
                    /\ rooms'[c].round.roundNumber = rooms[c].round.roundNumber
                    /\ rooms'[c].round.currentStepIndex = rooms[c].round.currentStepIndex
            /\ rooms'[c].phase # "paused" => HostRejoined(c)]_vars

\* ---------------------------------------------------- pending answers
\* the room codes under which an answer of connection s is pending
PendingCodesOf(s) ==
  {c \in DOMAIN pendingAnswers : Has(pendingAnswers[c], s)}

\* C19: at most one answer is pending per player at any time: a player's new
\* submission cancels the timer of the player's earlier one, so only the most
\* recent guess is ever resolved.
C19_OnePendingPerPlayer ==
  \A s \in Sockets : Cardinality(PendingCodesOf(s)) <= 1

\* ------------------------------------------------------- scene: clock
\* Time is counted in seconds on the pending answers themselves: "delay" is
\* what is left of the setTimeout delay of a guess.  Two players of one room
\* take a handicap in the lobby or not, the host starts games, both answer,
\* seconds pass, and an answer timer runs when no delay is left.

\* the variant of TimerDue that lets a timer run at any time
TimerDue_Always(pending) == TRUE

\* setTimeout(callback, delayMs): the callback runs once the delay is over
TimerDue(pending) == pending.delay = 0

\* a second passes; a timer that is due runs before the next second does
Tick ==
  /\ pendingAnswers # EmptyMap
  /\ \A c \in DOMAIN pendingAnswers : \A s \in DOMAIN pendingAnswers[c] :
       ~TimerDue(pendingAnswers[c][s])
  /\ Done([State EXCEPT !.pendingAnswers =
             [c \in DOMAIN pendingAnswers |->
                [s \in DOMAIN pendingAnswers[c] |->
                   [pendingAnswers[c][s] EXCEPT !.delay = @ - 1]]]],
          <<>>)
  /\ UNCHANGED conn

AnswerTimeout(roomCode, s) ==
  /\ Has(pendingAnswers, roomCode)
  /\ Has(pendingAnswers[roomCode], s)
  /\ TimerDue(pendingAnswers[roomCode][s])
  /\ AnswerTimer(roomCode, s)

NextClock ==
  \/ \E s \in 1..NumSessions : RoomHandicap(s, 5)
  \/ GameBackToLobby(1)
  \/ GameStart(1)
  \/ \E s \in 1..NumSessions, songId \in Songs : GameAnswer(s, songId, songId)
  \/ \E code \in Codes, s \in 1..NumSessions : AnswerTimeout(code, s)
  \/ Tick

SpecClock == InitLobby(NumSessions) /\ [][NextClock]_vars

\* the guess of player s pending in room c is a correct guess for the
\* current round of c, and s holds no winner slot of the round yet
CorrectPending(c, s) ==
  /\ Has(rooms, c) /\ rooms[c].round # NullRound
  /\ Has(pendingAnswers, c) /\ Has(pendingAnswers[c], s)
  /\ getRoomBySocket(State, s) = c
  /\ SomePlayer(rooms[c].players, s)
  /\ pendingAnswers[c][s].roundNumber = rooms[c].round.roundNumber
  /\ pendingAnswers[c][s].songId =
       getSongForRound(State, c, rooms[c].round.roundNumber)
  /\ ~alreadyScored(rooms[c].round, s)

\* in room c player a, with a handicap, has a correct guess pending whose
\* delay is not over, player b, without one, has submitted a correct guess
\* since, and the round has two free winner slots
Race(c, a, b) ==
  /\ a # b
  /\ CorrectPending(c, a) /\ CorrectPending(c, b)
  /\ pendingAnswers[c][a].delay > 0
  /\ rooms[c].players[FindPlayer(rooms[c].players, b)].handicapSeconds = 0
  /\ pendingAnswers[c][b].delay = 0
  /\ Len(rooms[c].round.winners) + 2
       <= MinOf(Len(rooms[c].settings.scoringScheme), Len(rooms[c].players))

\* the step is the run of the timer of the guess of s pending under c
TimerRan(c, s) ==
  /\ fired'.kind = "answer"
  /\ fired'.a[1] = c
  /\ fired'.a[2] = s

\* C20: winner rank follows the order in which the timers run.  While the
\* delay of a guess is not over its timer does not run; so when a, with a
\* handicap, has a correct guess pending and b, without one, submits a correct
\* guess before a's delay is over, a's timer does not run first: b's does,
\* and b takes the first free winner slot while a's guess stays pending for
\* a later one.
C20_FiringOrder ==
  [][/\ \A c \in Codes, s \in Sockets :
          (Has(pendingAnswers, c) /\ Has(pendingAnswers[c], s)
             /\ pendingAnswers[c][s].delay > 0)
            => ~TimerRan(c, s)
     /\ \A c \in Codes, a \in Sockets, b \in Sockets :
          Race(c, a, b)
            => /\ ~TimerRan(c, a)
               /\ TimerRan(c, b)
                    => /\ Len(rooms'[c].round.winners) = Len(rooms[c].round.winners) + 1
                       /\ rooms'[c].round.winners[Len(rooms'[c].round.winners)].playerId = b
                       /\ ~alreadyScored(rooms'[c].round, a)
                       /\ Has(pendingAnswers', c) /\ Has(pendingAnswers'[c], a)
                       /\ pendingAnswers'[c][a] = pendingAnswers[c][a]]_vars

\* b's timer has just run and given b the first winner slot of the round,
\* while the correct guess that a submitted a second or more before b's is
\* still waiting for its delay to end
C20_Witness ==
  \E c \in DOMAIN rooms : \E a \in Sockets, b \in Sockets :
    /\ a # b
    /\ fired.kind = "answer" /\ fired.a[1] = c /\ fired.a[2] = b
    /\ rooms[c].round # NullRound
    /\ Len(rooms[c].round.winners) = 1
    /\ rooms[c].round.winners[1].playerId = b
    /\ CorrectPending(c, a)
    /\ pendingAnswers[c][a].delay > 0
    /\ pendingAnswers[c][a].delay
         < rooms[c].players[FindPlayer(rooms[c].players, a)].handicapSeconds

\* ----------------------------------------------------------- membership
\* the codes of the rooms whose player list holds connection s
RoomsOf(s) == {c \in DOMAIN rooms : SomePlayer(rooms[c].players, s)}

\* C21: every connection is a player of at most one room, also after it has
\* created or joined a room while listed in another.
C21_OneRoomPerConnection ==
  \A s \in Sockets : Cardinality(RoomsOf(s)) <= 1

\* ------------------------------------------------------- scene: names
\* Connections create, join and leave one room and rename themselves.
NextNames ==
  \/ \E s \in Sockets : OnConnection(s)
  \/ \E s \in Sockets : RoomCreate(s, FirstCode)
  \/ \E s \in Sockets : RoomJoin(s, FirstCode)
  \/ \E s \in Sockets : RoomLeave(s)
  \/ \E s \in Sockets, nickname \in NicknameInputs : RoomNickname(s, nickname)
  \/ DeletionTimer(FirstCode)

SpecNames == Init /\ [][NextNames]_vars

\* C22: the nicknames of the players of a room are pairwise distinct, after
\* any joins (with default or restored nicknames), renames, leaves and
\* rejoins.
C22_DistinctNicknames ==
  \A c \in DOMAIN rooms :
    \A i \in 1..Len(rooms[c].players), j \in 1..Len(rooms[c].players) :
      i # j => rooms[c].players[i].nickname # rooms[c].players[j].nickname

\* ------------------------------------------------------------ reconnect
\* the record of connection s in the player list of room c in state st
PlayerOf(st, c, s) == st.rooms[c].players[FindPlayer(st.rooms[c].players, s)]

\* the maps after connection s has left room c, connection t has sent
\* room:leave meanwhile, and s has joined c again with its session
LeftAndBack(st, c, s, t) ==
  joinRoom(leaveRoom(leaveRoom(st, s).st, t).st, c, s, SessionOf(s))

\* C23: a player who leaves a room during a game and joins it again with the
\* same session during that game has the score and the handicap the player
\* had when leaving, whoever else left the room in between.
C23_ReconnectRestores ==
  \A c \in DOMAIN rooms : \A s \in Sockets, t \in Sockets :
    (/\ rooms[c].phase # "lobby"
     /\ getRoomBySocket(State, s) = c
     /\ SomePlayer(rooms[c].players, s)
     /\ Has(socketToSession, s)
     /\ LeftAndBack(State, c, s, t).ret = "ok")
      => LET back == PlayerOf(LeftAndBack(State, c, s, t).st, c, s)
         IN  /\ back.score = PlayerOf(State, c, s).score
             /\ back.handicapSeconds = PlayerOf(State, c, s).handicapSeconds

\* ---------------------------------------------------- scene: teardown
\* A host and a guest, who may take a handicap, play games: rounds start,
\* answers are closed, games end and are reset, the host leaves and comes
\* back, both answer, and answer timers and the deletion timer run.
NextTeardown ==
  \/ RoomHandicap(2, 5)
  \/ GameStart(1)
  \/ GameNext(1)
  \/ GameCloseAnswers(1)
  \/ GameEnd(1)
  \/ GameBackToLobby(1)
  \/ RoomLeave(1)
  \/ RoomJoin(1, FirstCode)
  \/ \E s \in 1..NumSessions : GameAnswer(s, 1, 1)
  \/ \E s \in 1..NumSessions : AnswerTimer(FirstCode, s)
  \/ DeletionTimer(FirstCode)

SpecTeardown == InitLobby(NumSessions) /\ [][NextTeardown]_vars

\* the step emits event ev to room c
Emits(ev, c) == \E i \in 1..Len(out') : out'[i].ev = ev /\ out'[i].to = c

\* the step is a transition of room c that invalidates the guesses in
\* flight: a round start, the host closing answers, the end of the game, a
\* reset to the lobby, or the deletion of the room
Invalidates(c) ==
  \/ \E s \in Sockets :
       /\ HostOf(s) = c
       /\ \/ GameStart(s)
          \/ rooms[c].round # NullRound /\ GameNext(s)
          \/ rooms[c].round # NullRound /\ GameCloseAnswers(s)
          \/ GameEnd(s)
          \/ GameBackToLobby(s)
  \/ DeletionTimer(c)

\* C24: right after a transition that invalidates the guesses in flight (a
\* round start, the host closing answers, the end of the game, a reset to
\* the lobby, the deletion of the room when its grace period expires) no
\* answer is pending under the room's code, so no timer of one can fire.
C24_NoPendingAfterInvalidation ==
  [][\A c \in Codes : Invalidates(c) => ~Has(pendingAnswers', c)]_vars

\* --------------------------------------------------------------- rounds
\* C25: a room has a round only while its phase is playing or paused; a
\* finished room has none.
C25_RoundOnlyInGame ==
  \A c \in DOMAIN rooms :
    rooms[c].round # NullRound => rooms[c].phase \in {"playing", "paused"}

\* -------------------------------------------------------- scene: steps
\* The host of a room changes its settings, starts games, plays and extends
\* the song, advances the rounds, ends the game and resets it; the guest
\* asks for an extension too, and both answer.
NextSteps ==
  \/ \E settings \in SettingsInputs : RoomSettings(1, settings)
  \/ GameStart(1)
  \/ GamePlay(1)
  \/ \E s \in 1..NumSessions : GameExtend(s)
  \/ GameNext(1)
  \/ GameEnd(1)
  \/ GameBackToLobby(1)
  \/ \E s \in 1..NumSessions : GameAnswer(s, 1, 1)
  \/ \E s \in 1..NumSessions : AnswerTimer(FirstCode, s)

SpecSteps == InitLobby(NumSessions) /\ [][NextSteps]_vars

\* C26: extendDuration moves the step index on by exactly one and returns
\* the duration of the new step while the index is below the last step; at
\* the last step it returns null and leaves the index as it is.
C26_ExtendDuration ==
  \A c \in DOMAIN rooms :
    rooms[c].round # NullRound =>
      LET r == extendDuration(State, c)
          idx == rooms[c].round.currentStepIndex
          steps == rooms[c].settings.durationSteps
      IN  IF idx < Len(steps) - 1
          THEN /\ r.st.rooms[c].round.currentStepIndex = idx + 1
               /\ r.ret = Duration(steps[idx + 2])
          ELSE /\ r.st.rooms[c].round.currentStepIndex = idx
               /\ r.ret = NullDuration

\* a round numbered n with nothing played and nobody scored
FreshRound(round, n) ==
  /\ round # NullRound
  /\ round.roundNumber = n
  /\ round.currentStepIndex = 0
  /\ round.winners = <<>>

\* the round number of room c differs across the step
RoundNumberChanged(c) ==
  /\ Has(rooms, c) /\ Has(rooms', c)
  /\ rooms[c].round # NullRound /\ rooms'[c].round # NullRound
  /\ rooms'[c].round.roundNumber # rooms[c].round.roundNumber

\* ------------------------------------------------------- scene: rounds
\* The host sets the number of rounds, from unlimited (0) to MaxRound,
\* before and during games, starts games, extends the song, advances the
\* rounds, ends the game and resets it, while host and guest answer.
RoundsInputs == {[totalRounds |-> n] : n \in 0..MaxRound}

NextRounds ==
  \/ \E settings \in RoundsInputs : RoomSettings(1, settings)
  \/ GameStart(1)
  \/ GameExtend(1)
  \/ GameNext(1)
  \/ GameEnd(1)
  \/ GameBackToLobby(1)
  \/ \E s \in 1..NumSessions : GameAnswer(s, 1, 1)
  \/ \E s \in 1..NumSessions : AnswerTimer(FirstCode, s)

SpecRounds == InitLobby(NumSessions) /\ [][NextRounds]_vars

\* C27: when the host advances a room with current round r, the room gets a
\* fresh round numbered r + 1 (step 0, no winners) in the same phase if
\* totalRounds is 0 or r is below totalRounds, and becomes finished
\* otherwise; so a round number only ever goes up by one, or back to 1 when
\* a game starts.
C27_AdvanceRound ==
  [][/\ \A s \in Sockets :
          (HostOf(s) # 0 /\ rooms[HostOf(s)].round # NullRound /\ GameNext(s))
            => LET c == HostOf(s)
                   r == rooms[c].round.roundNumber
                   totalRounds == rooms[c].settings.totalRounds
               IN  IF totalRounds = 0 \/ r < totalRounds
                   THEN /\ FreshRound(rooms'[c].round, r + 1)
                        /\ rooms'[c].phase = rooms[c].phase
                   ELSE rooms'[c].phase = "finished"
     /\ \A c \in Codes :
          RoundNumberChanged(c)
            => \/ rooms'[c].round.roundNumber = rooms[c].round.roundNumber + 1
               \/ FreshRound(rooms'[c].round, 1)]_vars

\* the host has just advanced a game of three rounds in which somebody had
\* scored to its last round
C27_Witness ==
  /\ Has(rooms, FirstCode)
  /\ rooms[FirstCode].phase = "playing"
  /\ rooms[FirstCode].settings.totalRounds = MaxRound
  /\ FreshRound(rooms[FirstCode].round, MaxRound)
  /\ \E i \in 1..Len(rooms[FirstCode].players) : rooms[FirstCode].players[i].score > 0
  /\ fired = NoTimer
  /\ out = <<Ev("game:round", FirstCode, "", <<MaxRound>>)>>

\* --------------------------------------------------------- full rounds
\* the number of winner slots of room c
MaxScorers(room) == MinOf(Len(room.settings.scoringScheme), Len(room.players))

\* room c has a round whose winner slots are all taken
SlotsTaken(c) ==
  /\ Has(rooms, c)
  /\ rooms[c].round # NullRound
  /\ Len(rooms[c].round.winners) >= MaxScorers(rooms[c])

\* of room c and names another song than the round's
WrongGuessResolved(c) ==
  /\ fired'.kind = "answer"
  /\ CurrentRoomOf(State, fired'.a[2], fired'.a[3]) = c
  /\ getSongForRound(State, c, fired'.a[3]) # 0
  /\ fired'.a[4] # getSongForRound(State, c, fired'.a[3])

\* C29: an incorrect guess that resolves in the current round leaves the
\* winners and every score as they were, changing at most the submitter's
\* last-submitted title, and the wrong-answer event it causes goes to the
\* submitting connection only.
C29_WrongGuess ==
  [][\A c \in Codes :
       WrongGuessResolved(c)
         => LET s == fired'.a[2]
                wrong == Ev("game:wrong-answer", s, "", <<fired'.a[4]>>)
            IN  /\ Has(rooms', c)
                /\ rooms'[c].round.winners = rooms[c].round.winners
                /\ rooms'[c].players = rooms[c].players
                /\ \A k \in DOMAIN rooms'[c].round.answered :
                     k # s => /\ Has(rooms[c].round.answered, k)
                              /\ rooms'[c].round.answered[k] = rooms[c].round.answered[k]
                /\ \A d \in Codes : d # c => (Has(rooms, d) <=> Has(rooms', d))
                /\ \A d \in DOMAIN rooms : d # c => rooms'[d] = rooms[d]
                /\ out' \in {<<>>, <<wrong>>}
                /\ (~SlotsTaken(c) /\ ~alreadyScored(rooms[c].round, s))
                     => /\ out' = <<wrong>>
                        /\ rooms'[c].round.answered[s] = fired'.a[4]]_vars

\* a wrong guess has just been resolved in a round that has a winner: the
\* submitter alone is told, and the guess is recorded as the submitter's last
C29_Witness ==
  \E c \in DOMAIN rooms :
    /\ FiredAnswer
    /\ getRoomBySocket(State, FiredSocket) = c
    /\ rooms[c].round # NullRound
    /\ Len(rooms[c].round.winners) = 1
    /\ FiredSong # getSongForRound(State, c, FiredRound)
    /\ Has(rooms[c].round.answered, FiredSocket)
    /\ rooms[c].round.answered[FiredSocket] = FiredSong
    /\ out = <<Ev("game:wrong-answer", FiredSocket, "", <<FiredSong>>)>>

\* ----------------------------------------------------- the host leaves
\* C30: when a player flagged host leaves a room in phase lobby or finished
\* and other players remain, a deletion timer is armed for the room, the
\* phase stays, and no remaining player gains the host flag.
C30_HostLeavesLobby ==
  [][\A c \in Codes :
       (/\ PlayerLeft(c) /\ HostLeft(c)
        /\ rooms[c].phase \in {"lobby", "finished"}
        /\ Len(rooms'[c].players) > 0)
         => /\ c \in scheduledDeletions'
            /\ rooms'[c].phase = rooms[c].phase
            /\ \A i \in 1..Len(rooms'[c].players) :
                 LET p == rooms'[c].players[i]
                 IN  /\ SomePlayer(rooms[c].players, p.id)
                     /\ p.isHost = PlayerOf(State, c, p.id).isHost]_vars

\* the host has just left a finished room in which a player without the host
\* flag remains: the room keeps its phase and awaits deletion
C30_Witness ==
  \E c \in DOMAIN rooms :
    /\ rooms[c].phase = "finished"
    /\ Len(rooms[c].players) = 1
    /\ HostsOf(rooms[c]) = {}
    /\ Has(roomHostSession, c)
    /\ SessionOf(rooms[c].players[1].id) # roomHostSession[c]
    /\ c \in scheduledDeletions
    /\ fired = NoTimer
    /\ out = <<RoomStateEv(c)>>

\* ---------------------------------------------------------- empty rooms
\* C31: every room of the room table that has no players has a deletion
\* timer armed for its code.
C31_EmptyRoomScheduled ==
  \A c \in DOMAIN rooms :
    Len(rooms[c].players) = 0 => c \in scheduledDeletions

\* ------------------------------------------------------ scene: replace
\* A host and a guest, who may take a handicap, start and end a game, leave
\* the room and join it again, and answer, while answer timers and the
\* deletion timer run.
NextReplace ==
  \/ \E s \in 1..NumSessions : RoomCreate(s, FirstCode)
  \/ RoomHandicap(2, 5)
  \/ GameStart(1)
  \/ GameEnd(1)
  \/ \E s \in 1..NumSessions : RoomLeave(s)
  \/ \E s \in 1..NumSessions : RoomJoin(s, FirstCode)
  \/ \E s \in 1..NumSessions : GameAnswer(s, 1, 1)
  \/ \E s \in 1..NumSessions : AnswerTimer(FirstCode, s)
  \/ DeletionTimer(FirstCode)

SpecReplace == InitLobby(NumSessions) /\ [][NextReplace]_vars

\* the step is a leaveRoom that calls scheduleDeletion for room c: the
\* connection is mapped to c, and nobody is in the room once it is taken
\* out of the players, or it was the host of a room that is not playing
ScheduleCalled(c) ==
  \E s \in Sockets :
    /\ getRoomBySocket(State, s) = c
    /\ RoomLeave(s) \/ Disconnect(s)
    /\ \/ Len(rooms'[c].players) = 0
       \/ isHost(s, rooms[c]) /\ rooms[c].phase # "playing"

\* every answer pending in state st was armed before the deletion timer of c
AllOlder(st, c) ==
  \A rc \in DOMAIN st.pendingAnswers : \A s \in DOMAIN st.pendingAnswers[rc] :
    c \in st.pendingAnswers[rc][s].older

\* C32: a code has at most one armed deletion timer, the one stored under
\* it; a schedule call for a code that has a timer clears that timer and
\* arms a new one, younger than every answer timer then pending, so the
\* room is not deleted at the time of a replaced timer; and the room is
\* deleted by that timer, after which no timer is left for the code.
C32_TimerReplaced ==
  [][\A c \in Codes :
       /\ deletionTimeouts'[c] <= 1
       /\ deletionTimeouts'[c] = 1 <=> c \in scheduledDeletions'
       /\ ScheduleCalled(c)
            => /\ c \in scheduledDeletions'
               /\ deletionTimeouts'[c] = 1
               /\ AllOlder(State', c)
       /\ RoomDeleted(c)
            => /\ fired' = Timer("deletion", <<c>>)
               /\ deletionTimeouts'[c] = 0
               /\ c \notin scheduledDeletions']_vars

\* host and guest have left a finished room one after the other, the guest
\* with a guess pending: the timer in force is younger than the guess
C32_Witness ==
  \E c \in DOMAIN rooms :
    /\ rooms[c].phase = "finished"
    /\ Len(rooms[c].players) = 0
    /\ c \in scheduledDeletions
    /\ deletionTimeouts[c] = 1
    /\ Has(pendingAnswers, c) /\ Has(pendingAnswers[c], 2)
    /\ pendingAnswers[c][2].delay > 0
    /\ AllOlder(State, c)
    /\ fired = NoTimer
    /\ out = <<>>

\* ------------------------------------------------------------- sessions
\* C33: no two players of a room are connections of the same session.
C33_OneConnectionPerSession ==
  \A c \in DOMAIN rooms :
    \A i \in 1..Len(rooms[c].players), j \in 1..Len(rooms[c].players) :
      i # j => SessionOf(rooms[c].players[i].id) # SessionOf(rooms[c].players[j].id)

\* -------------------------------------------------------------- winners
\* C34: every winner recorded in the round of a room is a player of the
\* room.
C34_WinnersArePlayers ==
  \A c \in DOMAIN rooms :
    \A w \in 1..Len(WinnersOf(rooms[c])) :
      SomePlayer(rooms[c].players, rooms[c].round.winners[w].playerId)

\* -------------------------------------------------------- rejected joins
\* C35: a joinRoom call that returns an error leaves the registry as it was:
\* the rooms with their players and phases, the maps from connection to room
\* and to session, and the scheduled deletions.
C35_RejectedJoinChangesNothing ==
  \A code \in Codes, s \in Sockets :
    LET r == joinRoom(State, code, s, SessionOf(s))
    IN  r.ret # "ok"
          => /\ r.st.rooms = rooms
             /\ r.st.socketToRoom = socketToRoom
             /\ r.st.socketToSession = socketToSession
             /\ r.st.scheduledDeletions = scheduledDeletions

\* --------------------------------------------------------- lobby scores
\* C36: every player of a room in phase lobby has score 0, also a player
\* who joins the lobby with a session that took part in an earlier game.
C36_LobbyScoresZero ==
  \A c \in DOMAIN rooms :
    rooms[c].phase = "lobby"
      => \A i \in 1..Len(rooms[c].players) : rooms[c].players[i].score = 0

\* ---------------------------------------------------- scene: reconnect
\* A host and a guest play; the host's connection drops, and the host comes
\* back with the same session under a new connection and plays on.
NextReconnect ==
  \/ GameBackToLobby(1)
  \/ GameStart(1)
  \/ \E s \in Sockets : GameAnswer(s, 1, 1)
  \/ \E s \in Sockets : AnswerTimer(FirstCode, s)
  \/ Disconnect(1)
  \/ conn[1] = "closed" /\ OnConnection(NumSockets)
  \/ RoomJoin(NumSockets, FirstCode)
  \/ DeletionTimer(FirstCode)

SpecReconnect == InitLobby(NumSessions) /\ [][NextReconnect]_vars

\* C37: within one round a session holds at most one winner slot, also when
\* its player scores, disconnects and joins again with the same session
\* under a new connection id.
C37_OneSlotPerSession ==
  \A c \in DOMAIN rooms :
    \A v \in 1..Len(WinnersOf(rooms[c])), w \in 1..Len(WinnersOf(rooms[c])) :
      v # w => SessionOf(rooms[c].round.winners[v].playerId)
                 # SessionOf(rooms[c].round.winners[w].playerId)

\* C38: every player flagged host in a room is a connection of the session
\* recorded as the room's host session when it was created; no connection of
\* another session carries the flag.
C38_HostFlagOnlyHostSession ==
  \A c \in DOMAIN rooms :
    \A i \in 1..Len(rooms[c].players) :
      rooms[c].players[i].isHost
        => /\ Has(roomHostSession, c)
           /\ SessionOf(rooms[c].players[i].id) = roomHostSession[c]

\* the host has come back to a room after a player of another session: that
\* player is first in the list and is not flagged, the host is
C38_Witness ==
  \E c \in DOMAIN rooms :
    /\ Len(rooms[c].players) > 1
    /\ Has(roomHostSession, c)
    /\ SessionOf(rooms[c].players[1].id) # roomHostSession[c]
    /\ ~rooms[c].players[1].isHost
    /\ rooms[c].players[Len(rooms[c].players)].isHost
    /\ Len(out) > 1
    /\ out[1] = Cb(rooms[c].players[Len(rooms[c].players)].id, "ok")
    /\ out[2] = RoomStateEv(c)

\* C39: createRoom terminates and returns a room in every reachable state of
\* the room table: the loop of generateCode, which draws codes until it finds
\* one that is not in the table, has a code to stop at, also when every code
\* is used by a room.
C39_CreateRoomTerminates == generateCode(State) # {}

====
